---- MODULE Spec2Model ----
(***************************************************************************)
(* Model of the translation and streaming engine of claude-code-proxy:     *)
(*   - the streaming translators of src/conversion/response_converter.py   *)
(*     (convert_openai_streaming_to_claude and its _with_cancellation      *)
(*     variant), specification Spec;                                       *)
(*   - the non-streaming translator convert_openai_to_claude_response,     *)
(*     specification SpecResponse;                                         *)
(*   - the OpenAIClient of src/core/client.py with its cancellation        *)
(*     registry active_requests, specifications SpecClient and             *)
(*     SpecClientFair, and SpecPipe where a translator reads its generator;*)
(*   - OpenAIClient.classify_openai_error, specification SpecClassify;     *)
(*   - the TokenEstimator of src/core/token_estimator.py, specification    *)
(*     SpecEstimator.                                                      *)
(*                                                                         *)
(* Texts are sequences of characters over {"a", "C"} ("C" stands for a     *)
(* character of the CJK range), tool-call argument strings are sequences   *)
(* of JSON lexemes, so that concatenation and parsing are computed.        *)
(***************************************************************************)
EXTENDS Integers, Sequences, FiniteSets, TLC

VARIABLES
    \* ---- stream translator (one run of one of the two generators)
    variant,                 \* "basic" | "cancel": which translator runs
    original_request,        \* the ClaudeMessagesRequest handed to it
    enable_token_estimation, \* config.enable_token_estimation, a value the configuration
                             \* supplies (src/core/config.py itself sets no such attribute)
    tstate,                  \* "init" | "streaming" | "done" | "error" | "raised"
    consumed,                \* what the translator fetched from openai_stream so far
    events,                  \* the SSE events yielded so far
    current_tool_calls,      \* tc_index -> accumulator
    tool_order,              \* insertion order of current_tool_calls
    tool_block_counter,
    final_stop_reason,
    total_input_tokens,
    total_output_tokens,
    cancel_calls,            \* calls of openai_client.cancel_request(request_id)
    \* ---- non-streaming translator
    openai_response,         \* the backend result handed to the translator
    response_request,        \* the original request of that call
    response_estimation,     \* config.enable_token_estimation for that call
    claude_response,         \* what convert_openai_to_claude_response produced
    \* ---- classify_openai_error and the TokenEstimator, one call each
    error_detail,            \* the text str(error_detail) of the call
    error_guidance,          \* what classify_openai_error returned
    est_text,                \* the text handed to estimate_text_tokens
    est_request,             \* the request handed to the estimator
    est_result,              \* what the estimator returned
    \* ---- the max_tokens resolution of the request builder, one call
    requested_max_tokens,    \* request.max_tokens
    token_limits,            \* min_tokens_limit, max_tokens_limit, default_max_tokens
    sent_max_tokens,         \* the max_tokens of the backend parameters
    \* ---- the backend endpoint: Config() and OpenAIClient(), one construction each
    env_base_url,            \* OPENAI_BASE_URL, a text of URL lexemes
    azure_api_version,       \* AZURE_API_VERSION ("" when unset)
    config_loaded,           \* whether Config() has been made
    openai_base_url,         \* the base URL handed on: config.openai_base_url once loaded
    backend_client,          \* the client object OpenAIClient.__init__ made
    \* ---- OpenAIClient
    active_requests,         \* request_id -> the call whose asyncio.Event is registered
    event_set,               \* call -> whether the Event that call created is set
    call_op,                 \* call -> "none" | "create" | "stream"
    call_id,                 \* call -> its request_id ("" for None)
    call_pc,                 \* call -> where the coroutine / generator stands
    backend,                 \* call -> what the backend has delivered to it
    unread,                  \* call -> the chunks the backend's streamed response still
                             \* held when the generator stopped reading it
    cancel_task_done,        \* call -> whether its cancel_task has completed
    outcome,                 \* call -> what create_chat_completion returned or raised
    yielded,                 \* call -> the items create_chat_completion_stream yielded
    chunk_count,             \* call -> chunks fetched from the backend stream
    cancel_last              \* the cancel_request call that has just returned, and its result

streamVars == <<variant, original_request, enable_token_estimation, tstate, consumed,
                events, current_tool_calls, tool_order, tool_block_counter,
                final_stop_reason, total_input_tokens, total_output_tokens, cancel_calls>>
endpointVars == <<env_base_url, azure_api_version, config_loaded, openai_base_url,
                  backend_client>>
limitVars == <<requested_max_tokens, token_limits, sent_max_tokens, endpointVars>>
pureVars == <<error_detail, error_guidance, est_text, est_request, est_result, limitVars>>
responseVars == <<openai_response, response_request, response_estimation, claude_response,
                  pureVars>>
clientVars == <<active_requests, event_set, call_op, call_id, call_pc, backend, unread,
                cancel_task_done, outcome, yielded, chunk_count, cancel_last>>
vars == <<streamVars, responseVars, clientVars>>

-----------------------------------------------------------------------------
(* Bounds *)

\* lines a translator run fetches from its source at most
MaxLines == 3
\* chunks the backend delivers to one streaming call at most
MaxChunks == 2
\* fragments an error text is made of at most
MaxFragments == 3
\* characters of the texts handed to estimate_text_tokens at most (beside the two
\* long texts)
MaxTextLen == 10
\* messages of a request handed to the estimator at most
MaxMessages == 2

-----------------------------------------------------------------------------
(* Small helpers *)

Max(a, b) == IF a >= b THEN a ELSE b
Min(a, b) == IF a <= b THEN a ELSE b

\* the number of positions of s that hold x
CountOf(s, x) == Cardinality({ i \in 1..Len(s) : s[i] = x })

-----------------------------------------------------------------------------
(* json.loads on an argument string, over the lexemes { } , "a": 1 2 *)

LBRACE == "{"
RBRACE == "}"
COMMA == ","
KEY == "\"a\":"
IsDigit(t) == t \in {"1", "2"}

\* the position after the longest run of digits starting at i
NumEnd(s, i) ==
    CHOOSE j \in i..(Len(s) + 1) :
        /\ \A k \in i..(j - 1) : IsDigit(s[k])
        /\ (j = Len(s) + 1 \/ ~IsDigit(s[j]))

RECURSIVE ParseValue(_, _), ParseMembers(_, _)
\* the position after the JSON value that starts at i, 0 when there is none
ParseValue(s, i) ==
    IF i > Len(s) THEN 0
    ELSE IF IsDigit(s[i]) THEN NumEnd(s, i)
    ELSE IF s[i] = LBRACE THEN
        IF i + 1 <= Len(s) /\ s[i + 1] = RBRACE THEN i + 2 ELSE ParseMembers(s, i + 1)
    ELSE 0
\* the position after  key value (, key value)* }  starting at i, 0 when malformed
ParseMembers(s, i) ==
    IF i > Len(s) \/ s[i] # KEY THEN 0
    ELSE LET j == ParseValue(s, i + 1) IN
         IF j = 0 \/ j > Len(s) THEN 0
         ELSE IF s[j] = RBRACE THEN j + 1
         ELSE IF s[j] = COMMA THEN ParseMembers(s, j + 1)
         ELSE 0

\* json.loads(s) succeeds: one value spanning the whole string
JsonLoadsOk(s) == Len(s) > 0 /\ ParseValue(s, 1) = Len(s) + 1

-----------------------------------------------------------------------------
(* TokenEstimator (src/core/token_estimator.py) *)

InclusiveThresholds(text) ==
    LET total_chars == Len(text)
        chinese_chars == CountOf(text, "C")
    IN  IF total_chars = 0 THEN 0
        ELSE IF 10 * chinese_chars >= 7 * total_chars
             THEN Max(1, (10 * total_chars) \div 12)
        ELSE IF 10 * chinese_chars <= total_chars
             THEN Max(1, total_chars \div 4)
        ELSE Max(1, (10 * total_chars) \div 25)

\* estimate_text_tokens: text is a sequence of characters, "C" a CJK one
estimate_text_tokens(text) ==
    LET total_chars == Len(text)
        chinese_chars == CountOf(text, "C")
    IN  IF total_chars = 0 THEN 0
        ELSE IF 10 * chinese_chars > 7 * total_chars      \* ratio > 0.7
             THEN Max(1, (10 * total_chars) \div 12)      \* int(n / 1.2)
        ELSE IF 10 * chinese_chars < total_chars          \* ratio < 0.1
             THEN Max(1, total_chars \div 4)              \* int(n / 4.0)
        ELSE Max(1, (10 * total_chars) \div 25)           \* int(n / 2.5)

\* the estimates of the text items of a list content, added up
RECURSIVE ItemsSum(_)
ItemsSum(items) ==
    IF items = <<>> THEN 0 ELSE estimate_text_tokens(Head(items)) + ItemsSum(Tail(items))

RECURSIVE MessagesSum(_)
MessagesSum(messages) ==
    IF messages = <<>> THEN 0
    ELSE LET m == Head(messages) IN
         (IF m.has_role THEN 1 ELSE 0)
         + (IF m.is_list THEN ItemsSum(m.items) ELSE estimate_text_tokens(m.content))
         + MessagesSum(Tail(messages))

TwoTokenOverhead(messages) == Max(1, MessagesSum(messages) + Len(messages) * 2)

estimate_messages_tokens(messages) ==
    Max(1, MessagesSum(messages) + Len(messages) * 3)

estimate_input_tokens(request) ==
    Max(1, (IF request.messages # <<>> THEN estimate_messages_tokens(request.messages) ELSE 0)
           + (IF request.system # <<>> THEN estimate_text_tokens(request.system) ELSE 0)
           + 5)

estimate_output_tokens(text) == estimate_text_tokens(text)

\* should_use_estimation(usage_data): no usage, or both counts zero
should_use_estimation(usage) ==
    \/ ~usage.has
    \/ /\ (IF usage.has_pt THEN usage.pt ELSE 0) = 0
       /\ (IF usage.has_ct THEN usage.ct ELSE 0) = 0

-----------------------------------------------------------------------------
(* Inputs: usage objects, requests *)

\* null: the "usage" key is present with the value null, which is what
\* completion.model_dump() gives for a completion that carries no usage
NoUsage ==
    [has |-> FALSE, null |-> FALSE, has_pt |-> FALSE, pt |-> 0, has_ct |-> FALSE, ct |-> 0]
UsageNull ==
    [has |-> FALSE, null |-> TRUE, has_pt |-> FALSE, pt |-> 0, has_ct |-> FALSE, ct |-> 0]
Usage(p, c) ==
    [has |-> TRUE, null |-> FALSE, has_pt |-> TRUE, pt |-> p, has_ct |-> TRUE, ct |-> c]
\* a usage object that carries completion_tokens only
UsageCompletionOnly(c) ==
    [has |-> TRUE, null |-> FALSE, has_pt |-> FALSE, pt |-> 0, has_ct |-> TRUE, ct |-> c]

\* a message whose content is a string, or a list of text items
Message(text) == [has_role |-> TRUE, is_list |-> FALSE, content |-> text, items |-> <<>>]
ListMessage(items) == [has_role |-> TRUE, is_list |-> TRUE, content |-> <<>>, items |-> items]
\* a message dict without the key "role"
RolelessMessage(text) ==
    [has_role |-> FALSE, is_list |-> FALSE, content |-> text, items |-> <<>>]
Request(max_tokens, messages, system) ==
    [max_tokens |-> max_tokens, messages |-> messages, system |-> system]

DefaultRequest ==
    Request(400, <<Message(<<"a", "a", "a", "a", "a", "a", "a", "a">>)>>, <<"C", "C", "C">>)
Requests == { DefaultRequest, Request(16, <<>>, <<>>), Request(-100, <<>>, <<>>) }

-----------------------------------------------------------------------------
(* Inputs of the stream translators: what one fetch from openai_stream gives *)

TcAbsent == [state |-> "absent", list |-> <<>>]      \* delta has no "tool_calls" key
TcNull == [state |-> "null", list |-> <<>>]          \* "tool_calls": null
TcList(l) == [state |-> "list", list |-> l]
ArgsAbsent == [state |-> "absent", frag |-> <<>>]    \* function has no "arguments" key
ArgsNull == [state |-> "null", frag |-> <<>>]        \* "arguments": null
ArgsStr(f) == [state |-> "str", frag |-> f]
\* a tool-call delta; id and name "" stand for an absent, null or empty value
TcDelta(has_index, index, id, name, args) ==
    [has_index |-> has_index, index |-> index, id |-> id, name |-> name, args |-> args]

\* kind: "blank"     line.strip() is empty
\*       "other"     a non-empty line that does not start with "data: "
\*       "done"      data: [DONE]
\*       "malformed" data: followed by text json.loads rejects
\*       "error"     data: {"error": {...}}, an object without choices
\*       "chunk"     data: a chat.completion.chunk object
\*       "raise"     the source raises instead of giving a line
\* content <<>> stands for an absent, null or empty delta.content;
\* finish_reason "" for an absent or null one.
\* an "error" line carries error_type and message ("" when the key is absent)
Line(kind, has_choices, usage, content, tool_calls, finish_reason, exc, error_type, message) ==
    [kind |-> kind, has_choices |-> has_choices, usage |-> usage, content |-> content,
     tool_calls |-> tool_calls, finish_reason |-> finish_reason, exc |-> exc,
     error_type |-> error_type, message |-> message]

Plain(kind) == Line(kind, FALSE, NoUsage, <<>>, TcAbsent, "", "", "", "")
Chunk(usage, content, tool_calls, finish_reason) ==
    Line("chunk", TRUE, usage, content, tool_calls, finish_reason, "", "", "")
Raise(exc) == Line("raise", FALSE, NoUsage, <<>>, TcAbsent, "", exc, "", "")
ErrorPayload(error_type, message) ==
    Line("error", FALSE, NoUsage, <<>>, TcAbsent, "", "", error_type, message)

SkippedLines == { Plain("blank"), Plain("other"), Plain("malformed") }
TextChunks ==
    { Chunk(UsageCompletionOnly(4), <<"a", "a">>, TcNull, ""),
      Chunk(Usage(5, 0), <<"C", "C">>, TcAbsent, ""),
      Chunk(Usage(5, 10), <<>>, TcAbsent, ""),
      Chunk(Usage(0, 0), <<>>, TcAbsent, ""),
      \* a usage-only chunk: "choices": []
      Line("chunk", FALSE, Usage(7, 3), <<>>, TcAbsent, "", "", "", "") }
ToolChunks ==
    { Chunk(NoUsage, <<>>, TcList(<<TcDelta(TRUE, 0, "call_1", "f", ArgsStr(<<>>))>>), ""),
      Chunk(NoUsage, <<>>, TcList(<<TcDelta(FALSE, 0, "", "", ArgsStr(<<LBRACE, KEY, "1">>))>>), ""),
      Chunk(NoUsage, <<>>, TcList(<<TcDelta(TRUE, 0, "", "", ArgsStr(<<RBRACE>>))>>), ""),
      Chunk(NoUsage, <<"a">>, TcList(<<TcDelta(TRUE, 1, "call_2", "g", ArgsStr(<<"1">>))>>), ""),
      Chunk(NoUsage, <<>>, TcList(<<TcDelta(TRUE, 0, "call_1", "", ArgsStr(<<LBRACE, RBRACE>>))>>), ""),
      Chunk(NoUsage, <<>>, TcList(<<TcDelta(TRUE, 0, "", "f", ArgsAbsent)>>), ""),
      Chunk(NoUsage, <<>>, TcList(<<TcDelta(TRUE, 0, "", "", ArgsNull)>>), "") }
FinishChunks ==
    { Chunk(Usage(5, 10), <<"a">>, TcAbsent, "stop"),
      Chunk(NoUsage, <<>>, TcAbsent, "length"),
      Chunk(NoUsage, <<>>,
            TcList(<<TcDelta(TRUE, 1, "call_2", "g", ArgsStr(<<LBRACE, RBRACE>>))>>), "tool_calls"),
      Chunk(NoUsage, <<>>, TcAbsent, "function_call"),
      Chunk(NoUsage, <<>>, TcAbsent, "content_filter") }
\* the lines in hand when the client is found disconnected
DisconnectLines ==
    { Chunk(Usage(5, 10), <<"a">>, TcAbsent, "stop"),
      Chunk(NoUsage, <<"a">>, TcList(<<TcDelta(TRUE, 1, "call_2", "g", ArgsStr(<<"1">>))>>), "") }
ChunkLines == TextChunks \cup ToolChunks \cup FinishChunks
ErrorLines ==
    { ErrorPayload("client_error", "Request cancelled by client"), ErrorPayload("", "") }
RaiseLines == { Raise("Exception"), Raise("HTTPException499"), Raise("HTTPException500") }

-----------------------------------------------------------------------------
(* Events (the data of one SSE event; unused fields keep their defaults) *)

NoEvent ==
    [type |-> "", index |-> 0, block |-> "", delta |-> "", text |-> <<>>,
     partial_json |-> <<>>, id |-> "", name |-> "", stop_reason |-> "",
     input_tokens |-> 0, output_tokens |-> 0, error_type |-> "", message |-> ""]

MessageStart == [NoEvent EXCEPT !.type = "message_start"]
Ping == [NoEvent EXCEPT !.type = "ping"]
TextBlockStart == [NoEvent EXCEPT !.type = "content_block_start", !.index = 0, !.block = "text"]
ToolBlockStart(i, id, name) ==
    [NoEvent EXCEPT !.type = "content_block_start", !.index = i, !.block = "tool_use",
                    !.id = id, !.name = name]
TextDelta(i, text) ==
    [NoEvent EXCEPT !.type = "content_block_delta", !.index = i, !.delta = "text_delta",
                    !.text = text]
InputJsonDelta(i, json) ==
    [NoEvent EXCEPT !.type = "content_block_delta", !.index = i, !.delta = "input_json_delta",
                    !.partial_json = json]
BlockStop(i) == [NoEvent EXCEPT !.type = "content_block_stop", !.index = i]
MessageDelta(stop_reason, inp, out) ==
    [NoEvent EXCEPT !.type = "message_delta", !.stop_reason = stop_reason,
                    !.input_tokens = inp, !.output_tokens = out]
MessageStop == [NoEvent EXCEPT !.type = "message_stop"]
ErrorEvent(error_type, message) ==
    [NoEvent EXCEPT !.type = "error", !.error_type = error_type, !.message = message]

-----------------------------------------------------------------------------
(* The stream translators, src/conversion/response_converter.py *)

text_block_index == 0

\* a fresh entry of current_tool_calls; id/name "" and claude_index 0 stand for None
NewToolCall ==
    [id |-> "", name |-> "", args_buffer |-> <<>>, json_sent |-> FALSE,
     claude_index |-> 0, started |-> FALSE]

OverwriteTotal(total, has_key, value) == IF has_key THEN value ELSE total

\* the running total after a usage field: overwritten by a positive value only
UpdateTotal(total, has_key, value) ==
    IF has_key /\ value > 0 THEN value ELSE total

AlwaysEndTurn(finish_reason) == "end_turn"

\* the if/elif chain on a non-empty finish_reason
StreamStopReason(finish_reason) ==
    IF finish_reason = "length" THEN "max_tokens"
    ELSE IF finish_reason \in {"tool_calls", "function_call"} THEN "tool_use"
    ELSE IF finish_reason = "stop" THEN "end_turn"
    ELSE "end_turn"

StartsOnId(tool_call) == tool_call.id # "" /\ ~tool_call.started

\* whether the block of a tool call is opened now
StartsBlock(tool_call) ==
    tool_call.id # "" /\ tool_call.name # "" /\ ~tool_call.started

TakesBeforeStart(v, args, tool_call) ==
    /\ args.state # "absent"
    /\ (v = "cancel" => args.state # "null")

\* whether the argument value of this delta is appended to the buffer;
\* only the cancellation-aware translator tests it against None
TakesArguments(v, args, tool_call) ==
    /\ args.state # "absent"
    /\ tool_call.started
    /\ (v = "cancel" => args.state # "null")

SendsWheneverParses(args_buffer, json_sent) == JsonLoadsOk(args_buffer)

\* whether the buffered arguments are sent as an input_json_delta
SendsJson(args_buffer, json_sent) == JsonLoadsOk(args_buffer) /\ ~json_sent

FragmentOnly(args_buffer, fragment) == fragment

\* the partial_json of that delta
JsonPayload(args_buffer, fragment) == args_buffer

\* one element of delta["tool_calls"]; r carries the translator's loop state
ApplyToolCallDelta(r, tc, v) ==
    LET tc_index == IF tc.has_index THEN tc.index ELSE 0
        known == tc_index \in DOMAIN r.tools
        tools0 == IF known THEN r.tools ELSE r.tools @@ (tc_index :> NewToolCall)
        order0 == IF known THEN r.order ELSE Append(r.order, tc_index)
        t1 == [tools0[tc_index] EXCEPT !.id = IF tc.id # "" THEN tc.id ELSE @,
                                      !.name = IF tc.name # "" THEN tc.name ELSE @]
        start == StartsBlock(t1)
        counter1 == IF start THEN r.counter + 1 ELSE r.counter
        t2 == IF start
              THEN [t1 EXCEPT !.claude_index = text_block_index + counter1, !.started = TRUE]
              ELSE t1
        ev1 == IF start
               THEN Append(r.events, ToolBlockStart(t2.claude_index, t2.id, t2.name))
               ELSE r.events
        takes == TakesArguments(v, tc.args, t2)
        type_error == takes /\ tc.args.state = "null"      \* str += None
        buf == t2.args_buffer \o tc.args.frag
        send == takes /\ ~type_error /\ SendsJson(buf, t2.json_sent)
        t3 == IF takes /\ ~type_error
              THEN [t2 EXCEPT !.args_buffer = buf, !.json_sent = (@ \/ send)]
              ELSE t2
        ev2 == IF send
               THEN Append(ev1, InputJsonDelta(t2.claude_index, JsonPayload(buf, tc.args.frag)))
               ELSE ev1
    IN  [r EXCEPT !.tools = [tools0 EXCEPT ![tc_index] = t3], !.order = order0,
                  !.counter = counter1, !.events = ev2,
                  !.exc = IF type_error THEN "TypeError" ELSE ""]

\* for tc_delta in delta["tool_calls"], until one raises
RECURSIVE ApplyToolCallDeltas(_, _, _)
ApplyToolCallDeltas(r, tcs, v) ==
    IF tcs = <<>> \/ r.exc # "" THEN r
    ELSE ApplyToolCallDeltas(ApplyToolCallDelta(r, Head(tcs), v), Tail(tcs), v)

\* the tool-call part of a chunk: the basic translator iterates whenever the key
\* is present (None raises TypeError), the other one only over a non-empty list
HandleToolCalls(r, tool_calls, v) ==
    IF tool_calls.state = "absent" THEN r
    ELSE IF tool_calls.state = "null"
         THEN (IF v = "basic" THEN [r EXCEPT !.exc = "TypeError"] ELSE r)
    ELSE ApplyToolCallDeltas(r, tool_calls.list, v)

\* the usage part of a chunk
HandleUsage(r, usage) ==
    IF ~usage.has THEN r
    ELSE [r EXCEPT !.tin = UpdateTotal(@, usage.has_pt, usage.pt),
                   !.tout = UpdateTotal(@, usage.has_ct, usage.ct)]

SkipsShortText(r, content) ==
    IF Len(content) > 1
    THEN [r EXCEPT !.events = Append(@, TextDelta(text_block_index, content))]
    ELSE r

\* the text part of a chunk
HandleText(r, content) ==
    IF content # <<>>
    THEN [r EXCEPT !.events = Append(@, TextDelta(text_block_index, content))]
    ELSE r

KeepsReading(r, finish_reason) ==
    IF finish_reason # ""
    THEN [r EXCEPT !.stop = StreamStopReason(finish_reason)]
    ELSE r

\* the finish_reason part of a chunk
HandleFinish(r, finish_reason) ==
    IF finish_reason # ""
    THEN [r EXCEPT !.stop = StreamStopReason(finish_reason), !.outcome = "break"]
    ELSE r

\* the body of the loop for a chunk that has choices
HandleChunk(r, ln, v) ==
    LET r1 == HandleText(HandleUsage(r, ln.usage), ln.content)
        r2 == HandleToolCalls(r1, ln.tool_calls, v)
    IN  IF r2.exc # "" THEN r2 ELSE HandleFinish(r2, ln.finish_reason)

\* the error event of the except clauses; outcome "return" ends the generator
\* after it, "raise" lets the exception out of the generator
HandleException(r, v) ==
    IF v = "cancel" /\ r.exc = "HTTPException499"
    THEN [r EXCEPT !.events = Append(@, ErrorEvent("cancelled", "Request was cancelled by client")),
                   !.outcome = "return"]
    ELSE IF v = "cancel" /\ r.exc = "HTTPException500"
    THEN [r EXCEPT !.outcome = "raise"]
    ELSE [r EXCEPT !.events = Append(@, ErrorEvent("api_error", r.exc)), !.outcome = "return"]

ErrorPayloadContinues(r, ln, v) ==
    IF v = "cancel"
    THEN [r EXCEPT !.events = Append(@, ErrorEvent(
                        IF ln.error_type = "" THEN "unknown_error" ELSE ln.error_type,
                        IF ln.message = "" THEN "Unknown error occurred" ELSE ln.message))]
    ELSE r

\* an inline error payload: the cancellation-aware translator turns it into an
\* error event and returns, the basic one finds no choices and skips the line
HandleErrorPayload(r, ln, v) ==
    IF v = "cancel"
    THEN [r EXCEPT !.events = Append(@, ErrorEvent(
                        IF ln.error_type = "" THEN "unknown_error" ELSE ln.error_type,
                        IF ln.message = "" THEN "Unknown error occurred" ELSE ln.message)),
                   !.outcome = "return"]
    ELSE r

MalformedAborts(r, ln, v) ==
    LET r1 == IF ln.kind \in {"raise", "malformed"} THEN [r EXCEPT !.exc = "Exception"]
              ELSE IF ln.kind = "done" THEN [r EXCEPT !.outcome = "break"]
              ELSE IF ln.kind = "error" THEN HandleErrorPayload(r, ln, v)
              ELSE IF ln.kind = "chunk" /\ ln.has_choices THEN HandleChunk(r, ln, v)
              ELSE r
    IN  IF r1.exc # "" THEN HandleException(r1, v) ELSE r1

\* one iteration of  async for line in openai_stream
HandleLine(r, ln, v) ==
    LET r1 == IF ln.kind = "raise" THEN [r EXCEPT !.exc = ln.exc]
              ELSE IF ln.kind = "done" THEN [r EXCEPT !.outcome = "break"]
              ELSE IF ln.kind = "error" THEN HandleErrorPayload(r, ln, v)
              ELSE IF ln.kind = "chunk" /\ ln.has_choices THEN HandleChunk(r, ln, v)
              ELSE r
    IN  IF r1.exc # "" THEN HandleException(r1, v) ELSE r1

NoToolStops(tools, order) == <<>>

\* content_block_stop of the started tool blocks, in the order of current_tool_calls
RECURSIVE ToolStops(_, _)
ToolStops(tools, order) ==
    IF order = <<>> THEN <<>>
    ELSE LET t == tools[Head(order)] IN
         (IF t.started /\ t.claude_index # 0 THEN <<BlockStop(t.claude_index)>> ELSE <<>>)
         \o ToolStops(tools, Tail(order))

EstimatesWhenEitherZero(est, tin, tout) == est /\ (tin = 0 \/ tout = 0)

\* whether the totals are replaced by estimates
UsesEstimation(est, tin, tout) == est /\ tin = 0 /\ tout = 0

\* min(max_tokens // 4, 50)
EstimatedStreamOutput(request) == Min(request.max_tokens \div 4, 50)

\* the totals after the estimation step that follows the loop
FinalUsage(r, request, est) ==
    IF UsesEstimation(est, r.tin, r.tout)
    THEN [input_tokens |-> estimate_input_tokens(request),
          output_tokens |-> EstimatedStreamOutput(request)]
    ELSE [input_tokens |-> r.tin, output_tokens |-> r.tout]

TextBlockLeftOpen(r, request, est) ==
    LET usage_data == FinalUsage(r, request, est) IN
    ToolStops(r.tools, r.order)
    \o <<MessageDelta(r.stop, usage_data.input_tokens, usage_data.output_tokens), MessageStop>>

\* the events after the loop: block stops, message_delta with the final usage, message_stop
FinalEvents(r, request, est) ==
    LET usage_data == FinalUsage(r, request, est) IN
    <<BlockStop(text_block_index)>> \o ToolStops(r.tools, r.order)
    \o <<MessageDelta(r.stop, usage_data.input_tokens, usage_data.output_tokens), MessageStop>>

-----------------------------------------------------------------------------
(* The non-streaming translator convert_openai_to_claude_response *)

\* a tool call of the backend message; id "" stands for an absent id
ToolCall(type, id, name, args) == [type |-> type, id |-> id, name |-> name, args |-> args]
\* a choice; content <<>> stands for absent, null or empty text
Choice(content, tool_calls, has_finish_reason, finish_reason) ==
    [content |-> content, tool_calls |-> tool_calls,
     has_finish_reason |-> has_finish_reason, finish_reason |-> finish_reason]
Response(choices, usage) == [choices |-> choices, usage |-> usage]

TextBlock(text) ==
    [type |-> "text", text |-> text, id |-> "", name |-> "",
     input |-> [raw_arguments |-> FALSE, value |-> <<>>]]
ToolUseBlock(id, name, input) ==
    [type |-> "tool_use", text |-> <<>>, id |-> id, name |-> name, input |-> input]

NeverRaw(args) ==
    [raw_arguments |-> FALSE,
     value |-> IF args.state = "absent" THEN <<LBRACE, RBRACE>> ELSE args.frag]

\* json.loads(function_data.get("arguments", "{}")), or the raw_arguments wrapper
ToolInput(args) ==
    LET arguments == IF args.state = "absent" THEN <<LBRACE, RBRACE>> ELSE args.frag IN
    [raw_arguments |-> ~JsonLoadsOk(arguments), value |-> arguments]

\* the tool-use blocks of the function-typed tool calls, in order
RECURSIVE ToolUseBlocks(_)
ToolUseBlocks(tool_calls) ==
    IF tool_calls = <<>> THEN <<>>
    ELSE LET tc == Head(tool_calls) IN
         (IF tc.type = "function"
          THEN <<ToolUseBlock(IF tc.id = "" THEN "tool_uuid" ELSE tc.id, tc.name,
                              ToolInput(tc.args))>>
          ELSE <<>>)
         \o ToolUseBlocks(Tail(tool_calls))

LeaveEmpty(content_blocks) == content_blocks

\* "Ensure at least one content block"
EnsureContent(content_blocks) ==
    IF content_blocks = <<>> THEN <<TextBlock(<<>>)>> ELSE content_blocks

\* the content list of the translated message
ContentBlocks(message) ==
    EnsureContent((IF message.content # <<>> THEN <<TextBlock(message.content)>> ELSE <<>>)
                  \o ToolUseBlocks(message.tool_calls))

\* the dict lookup on choice.get("finish_reason", "stop")
ResponseStopReason(has_finish_reason, finish_reason) ==
    LET key == IF has_finish_reason THEN finish_reason ELSE "stop" IN
    CASE key = "stop" -> "end_turn"
      [] key = "length" -> "max_tokens"
      [] key = "tool_calls" -> "tool_use"
      [] key = "function_call" -> "tool_use"
      [] OTHER -> "end_turn"

\* the text of the text blocks, concatenated
RECURSIVE ResponseText(_)
ResponseText(content_blocks) ==
    IF content_blocks = <<>> THEN <<>>
    ELSE (IF Head(content_blocks).type = "text" THEN Head(content_blocks).text ELSE <<>>)
         \o ResponseText(Tail(content_blocks))

\* the usage of the translated message
ResponseUsage(usage, content_blocks, request, est) ==
    IF est /\ should_use_estimation(usage)
    THEN [input_tokens |-> estimate_input_tokens(request),
          output_tokens |-> estimate_output_tokens(ResponseText(content_blocks))]
    ELSE [input_tokens |-> IF usage.has /\ usage.has_pt THEN usage.pt ELSE 0,
          output_tokens |-> IF usage.has /\ usage.has_ct THEN usage.ct ELSE 0]

\* outcome "raised": HTTPException(status_code) or, with status 0, another exception
Raised(status_code, detail) ==
    [outcome |-> "raised", status_code |-> status_code, detail |-> detail, content |-> <<>>,
     stop_reason |-> "", usage |-> [input_tokens |-> 0, output_tokens |-> 0]]

\* json.loads(None) raises TypeError, which the function does not catch
HasNullArguments(tool_calls) ==
    \E i \in 1..Len(tool_calls) :
        tool_calls[i].type = "function" /\ tool_calls[i].args.state = "null"

TakesLastChoice(response, request, est) ==
    IF response.choices = <<>> THEN Raised(500, "No choices in OpenAI response")
    ELSE LET choice == response.choices[Len(response.choices)] IN
         IF HasNullArguments(choice.tool_calls) THEN Raised(0, "TypeError")
         ELSE IF response.usage.null THEN Raised(0, "AttributeError")
         ELSE LET content_blocks == ContentBlocks(choice) IN
              [outcome |-> "message", status_code |-> 200, detail |-> "",
               content |-> content_blocks,
               stop_reason |-> ResponseStopReason(choice.has_finish_reason, choice.finish_reason),
               usage |-> ResponseUsage(response.usage, content_blocks, request, est)]

convert_openai_to_claude_response(response, request, est) ==
    IF response.choices = <<>> THEN Raised(500, "No choices in OpenAI response")
    ELSE LET choice == response.choices[1] IN
         IF HasNullArguments(choice.tool_calls) THEN Raised(0, "TypeError")
         \* usage_data = openai_response.get("usage", {}) is None; None.get raises
         ELSE IF response.usage.null THEN Raised(0, "AttributeError")
         ELSE LET content_blocks == ContentBlocks(choice) IN
              [outcome |-> "message", status_code |-> 200, detail |-> "",
               content |-> content_blocks,
               stop_reason |-> ResponseStopReason(choice.has_finish_reason, choice.finish_reason),
               usage |-> ResponseUsage(response.usage, content_blocks, request, est)]

-----------------------------------------------------------------------------
(* Specification Spec: one run of a stream translator over any source *)

\* the loop state of the running translator
LoopState ==
    [tools |-> current_tool_calls, order |-> tool_order, counter |-> tool_block_counter,
     events |-> events, stop |-> final_stop_reason, tin |-> total_input_tokens,
     tout |-> total_output_tokens, exc |-> "", outcome |-> "continue"]

\* what was fetched, and what http_request.is_disconnected() answered for it
Fetched(ln, disconnected) == [line |-> ln, disconnected |-> disconnected]

\* the translator's state after the iteration (and, when the loop ends, after
\* everything the generator does until it finishes)
Install(r) ==
    /\ current_tool_calls' = r.tools
    /\ tool_order' = r.order
    /\ tool_block_counter' = r.counter
    /\ final_stop_reason' = r.stop
    /\ IF r.outcome = "break"
       THEN LET usage_data == FinalUsage(r, original_request, enable_token_estimation) IN
            /\ events' = r.events \o FinalEvents(r, original_request, enable_token_estimation)
            /\ total_input_tokens' = usage_data.input_tokens
            /\ total_output_tokens' = usage_data.output_tokens
            /\ tstate' = "done"
       ELSE /\ events' = r.events
            /\ total_input_tokens' = r.tin
            /\ total_output_tokens' = r.tout
            /\ tstate' = CASE r.outcome = "return" -> "error"
                           [] r.outcome = "raise" -> "raised"
                           [] OTHER -> "streaming"

StreamInit ==
    /\ variant \in {"basic", "cancel"}
    /\ original_request \in Requests
    /\ enable_token_estimation \in BOOLEAN
    \* the request is read for the estimates only: one request does without them
    /\ (~enable_token_estimation => original_request = DefaultRequest)
    /\ tstate = "init"
    /\ consumed = <<>>
    /\ events = <<>>
    /\ current_tool_calls = <<>>
    /\ tool_order = <<>>
    /\ tool_block_counter = 0
    /\ final_stop_reason = "end_turn"
    /\ total_input_tokens = 0
    /\ total_output_tokens = 0
    /\ cancel_calls = 0

\* the three events sent before the source is read
Start ==
    /\ tstate = "init"
    /\ events' = <<MessageStart, TextBlockStart, Ping>>
    /\ tstate' = "streaming"
    /\ UNCHANGED <<variant, original_request, enable_token_estimation, consumed,
                   current_tool_calls, tool_order, tool_block_counter, final_stop_reason,
                   total_input_tokens, total_output_tokens, cancel_calls>>
    /\ UNCHANGED <<responseVars, clientVars>>

CanFetch == tstate = "streaming" /\ Len(consumed) < MaxLines

Consume(ln) ==
    /\ CanFetch
    /\ consumed' = Append(consumed, Fetched(ln, FALSE))
    /\ Install(HandleLine(LoopState, ln, variant))
    /\ UNCHANGED <<variant, original_request, enable_token_estimation, cancel_calls>>
    /\ UNCHANGED <<responseVars, clientVars>>

ConsumeSkipped == CanFetch /\ \E ln \in SkippedLines : Consume(ln)
\* the sources explored carry usage/text chunks or tool-call chunks, not both kinds
\* (finishing chunks, which carry text, usage and tool calls, go with either)
Admissible(ln) ==
    /\ ln \in TextChunks => \A i \in 1..Len(consumed) : consumed[i].line \notin ToolChunks
    /\ ln \in ToolChunks => \A i \in 1..Len(consumed) : consumed[i].line \notin TextChunks
ConsumeChunk == \E ln \in ChunkLines : Admissible(ln) /\ Consume(ln)
ConsumeDone == CanFetch /\ Consume(Plain("done"))
ConsumeErrorPayload == CanFetch /\ \E ln \in ErrorLines : Consume(ln)
SourceRaises == CanFetch /\ \E ln \in RaiseLines : Consume(ln)

\* the source is exhausted: the loop ends
SourceExhausted ==
    /\ tstate = "streaming"
    /\ Install([LoopState EXCEPT !.outcome = "break"])
    /\ UNCHANGED <<variant, original_request, enable_token_estimation, consumed, cancel_calls>>
    /\ UNCHANGED <<responseVars, clientVars>>

DisconnectThenProcess ==
    /\ CanFetch
    /\ variant = "cancel"
    /\ cancel_calls' = cancel_calls + 1
    /\ \E ln \in DisconnectLines :
          /\ consumed' = Append(consumed, Fetched(ln, TRUE))
          /\ Install([HandleLine(LoopState, ln, variant) EXCEPT !.outcome = "break"])
    /\ UNCHANGED <<variant, original_request, enable_token_estimation>>
    /\ UNCHANGED <<responseVars, clientVars>>

\* the cancellation-aware translator finds the client disconnected when a line
\* arrives: it calls cancel_request and leaves the loop without reading the line
ClientDisconnected ==
    /\ CanFetch
    /\ variant = "cancel"
    /\ \E ln \in DisconnectLines : consumed' = Append(consumed, Fetched(ln, TRUE))
    /\ cancel_calls' = cancel_calls + 1
    /\ Install([LoopState EXCEPT !.outcome = "break"])
    /\ UNCHANGED <<variant, original_request, enable_token_estimation>>
    /\ UNCHANGED <<responseVars, clientVars>>

-----------------------------------------------------------------------------
(* OpenAIClient.classify_openai_error.  A text is a sequence of words; the
   operator  in  on strings is containment of the key's words, in a row *)

\* str.lower() of a word
LowerWord(w) ==
    CASE w = "Resource" -> "resource"
      [] w = "Unauthorized" -> "unauthorized"
      [] w = "QUOTA" -> "quota"
      [] w = "Timeout" -> "timeout"
      [] OTHER -> w
Lower(s) == [i \in 1..Len(s) |-> LowerWord(s[i])]

\* key in s
In(key, s) == \E i \in 1..(Len(s) - Len(key) + 1) : SubSeq(s, i, i + Len(key) - 1) = key

NoGuidance == [returned |-> FALSE, text |-> <<>>]
Returned(text) == [returned |-> TRUE, text |-> text]

UnauthorizedFirst(error_detail_) ==
    LET error_str == Lower(error_detail_) IN
    IF In(<<"invalid_api_key">>, error_str) \/ In(<<"unauthorized">>, error_str)
    THEN Returned(<<"Invalid API key. Please check your OPENAI_API_KEY configuration.">>)
    ELSE IF In(<<"resource", "not", "found">>, error_str) /\ In(<<"404">>, error_str)
    THEN Returned(<<"Azure OpenAI resource not found. Please check your deployment name, endpoint URL, and API version. Ensure the model deployment exists and is properly configured.">>)
    ELSE IF \/ In(<<"unsupported_country_region_territory">>, error_str)
            \/ In(<<"country,", "region,", "or", "territory", "not", "supported">>, error_str)
    THEN Returned(<<"OpenAI API is not available in your region. Consider using a VPN or Azure OpenAI service.">>)
    ELSE IF In(<<"rate_limit">>, error_str) \/ In(<<"quota">>, error_str)
    THEN Returned(<<"Rate limit exceeded. Please wait and try again, or upgrade your API plan.">>)
    ELSE IF /\ In(<<"model">>, error_str)
            /\ In(<<"not", "found">>, error_str) \/ In(<<"does", "not", "exist">>, error_str)
    THEN Returned(<<"Model not found. Please check your BIG_MODEL and SMALL_MODEL configuration.">>)
    ELSE IF In(<<"billing">>, error_str) \/ In(<<"payment">>, error_str)
    THEN Returned(<<"Billing issue. Please check your OpenAI account billing status.">>)
    ELSE IF In(<<"azure">>, error_str) /\ In(<<"endpoint">>, error_str)
    THEN Returned(<<"Azure OpenAI endpoint configuration issue. Please verify your OPENAI_BASE_URL and AZURE_API_VERSION settings.">>)
    ELSE Returned(error_detail_)

classify_openai_error(error_detail_) ==
    LET error_str == Lower(error_detail_) IN
    IF In(<<"resource", "not", "found">>, error_str) /\ In(<<"404">>, error_str)
    THEN Returned(<<"Azure OpenAI resource not found. Please check your deployment name, endpoint URL, and API version. Ensure the model deployment exists and is properly configured.">>)
    ELSE IF \/ In(<<"unsupported_country_region_territory">>, error_str)
            \/ In(<<"country,", "region,", "or", "territory", "not", "supported">>, error_str)
    THEN Returned(<<"OpenAI API is not available in your region. Consider using a VPN or Azure OpenAI service.">>)
    ELSE IF In(<<"invalid_api_key">>, error_str) \/ In(<<"unauthorized">>, error_str)
    THEN Returned(<<"Invalid API key. Please check your OPENAI_API_KEY configuration.">>)
    ELSE IF In(<<"rate_limit">>, error_str) \/ In(<<"quota">>, error_str)
    THEN Returned(<<"Rate limit exceeded. Please wait and try again, or upgrade your API plan.">>)
    ELSE IF /\ In(<<"model">>, error_str)
            /\ In(<<"not", "found">>, error_str) \/ In(<<"does", "not", "exist">>, error_str)
    THEN Returned(<<"Model not found. Please check your BIG_MODEL and SMALL_MODEL configuration.">>)
    ELSE IF In(<<"billing">>, error_str) \/ In(<<"payment">>, error_str)
    THEN Returned(<<"Billing issue. Please check your OpenAI account billing status.">>)
    ELSE IF In(<<"azure">>, error_str) /\ In(<<"endpoint">>, error_str)
    THEN Returned(<<"Azure OpenAI endpoint configuration issue. Please verify your OPENAI_BASE_URL and AZURE_API_VERSION settings.">>)
    ELSE Returned(error_detail_)

\* the call returns
Classify ==
    /\ ~error_guidance.returned
    /\ error_guidance' = classify_openai_error(error_detail)
    /\ UNCHANGED <<error_detail, est_text, est_request, est_result, limitVars>>
    /\ UNCHANGED <<openai_response, response_request, response_estimation, claude_response>>
    /\ UNCHANGED <<streamVars, clientVars>>

-----------------------------------------------------------------------------
(* OpenAIClient, src/core/client.py *)

Calls == {1, 2}
RequestIds == {"r1", "r2"}
\* the request ids a call may be given ("" is None): the first call's id is fixed
CallIds(c) == IF c = 1 THEN {"r1", ""} ELSE IF call_id[1] = "" THEN {"r1"} ELSE RequestIds

\* calls are numbered in the order in which they start
CanStart(c) == call_op[c] = "none" /\ \A d \in Calls : d < c => call_op[d] # "none"

\* no call of cancel_request has just returned
NoCancel == [request_id |-> "", result |-> FALSE]

NoRequests == [id \in {} |-> 0]

\* self.active_requests[request_id] = cancel_event, if request_id
Register(registry, id, c) ==
    IF id # ""
    THEN [i \in DOMAIN registry \cup {id} |-> IF i = id THEN c ELSE registry[i]]
    ELSE registry

KeepEntry(registry, id) == registry

\* the finally clause: del self.active_requests[request_id], if it is there
Unregister(registry, id) ==
    IF id # "" /\ id \in DOMAIN registry
    THEN [i \in DOMAIN registry \ {id} |-> registry[i]]
    ELSE registry

\* what the backend call of create_chat_completion may end with
CreateResults ==
    {"ok", "AuthenticationError", "RateLimitError", "BadRequestError",
     "APIError503", "APIError", "Exception"}

NoOutcome == [kind |-> "none", status_code |-> 0, detail |-> <<>>]
HTTPException(status_code, detail) ==
    [kind |-> "HTTPException", status_code |-> status_code, detail |-> detail]

\* str(e) of what was raised in the try body, a text as classify_openai_error
\* reads it: one raw error text for each kind of failure
StrOf(ended) ==
    CASE ended = "HTTPException499" -> <<"499:", "Request cancelled by client">>
      [] ended = "AuthenticationError" -> <<"Error", "code:", "401", "invalid_api_key">>
      [] ended = "RateLimitError" -> <<"QUOTA", "exceeded">>
      [] ended = "BadRequestError" -> <<"The", "model", "does", "not", "exist">>
      [] ended = "APIError503" -> <<"Timeout">>
      [] ended = "APIError" -> <<"Unauthorized", "Resource", "not", "found", "404">>
      [] OTHER -> <<ended>>

DeliverUnclassified(ended) ==
    CASE ended = "ok" -> [kind |-> "result", status_code |-> 200, detail |-> <<>>]
      [] ended = "AuthenticationError" -> HTTPException(401, StrOf(ended))
      [] ended = "RateLimitError" -> HTTPException(429, StrOf(ended))
      [] ended = "BadRequestError" -> HTTPException(400, StrOf(ended))
      [] ended = "APIError503" -> HTTPException(503, StrOf(ended))
      [] ended = "APIError" -> HTTPException(500, StrOf(ended))
      [] OTHER -> HTTPException(500, <<"Unexpected error:">> \o StrOf(ended))

\* what the caller of create_chat_completion gets when the try body ends with
\* `ended`: the result, or the HTTPException of the first except clause that matches
Deliver(ended) ==
    CASE ended = "ok" -> [kind |-> "result", status_code |-> 200, detail |-> <<>>]
      [] ended = "AuthenticationError" ->
             HTTPException(401, classify_openai_error(StrOf(ended)).text)
      [] ended = "RateLimitError" ->
             HTTPException(429, classify_openai_error(StrOf(ended)).text)
      [] ended = "BadRequestError" ->
             HTTPException(400, classify_openai_error(StrOf(ended)).text)
      [] ended = "APIError503" ->
             HTTPException(503, classify_openai_error(StrOf(ended)).text)
      [] ended = "APIError" ->
             HTTPException(500, classify_openai_error(StrOf(ended)).text)
      [] OTHER -> HTTPException(500, <<"Unexpected error:">> \o StrOf(ended))

\* what the try body ends with once asyncio.wait has returned
TryBodyEnds(cancel_in_done, completion) ==
    IF cancel_in_done THEN "HTTPException499" ELSE completion

\* create_chat_completion up to its first await
CreateStart(c) ==
    /\ CanStart(c)
    /\ \E id \in CallIds(c) :
        /\ call_id' = [call_id EXCEPT ![c] = id]
        /\ active_requests' = Register(active_requests, id, c)
    /\ event_set' = [event_set EXCEPT ![c] = FALSE]
    /\ call_op' = [call_op EXCEPT ![c] = "create"]
    /\ call_pc' = [call_pc EXCEPT ![c] = "waiting"]
    /\ UNCHANGED <<backend, unread, cancel_task_done, outcome, yielded, chunk_count>>
    /\ cancel_last' = NoCancel
    /\ UNCHANGED <<streamVars, responseVars>>

\* completion_task finishes
BackendCompletes(c) ==
    /\ call_op[c] = "create" /\ call_pc[c] = "waiting" /\ backend[c] = "pending"
    /\ \E res \in CreateResults : backend' = [backend EXCEPT ![c] = res]
    /\ UNCHANGED <<active_requests, event_set, call_op, call_id, call_pc, cancel_task_done,
                   outcome, yielded, chunk_count, unread>>
    /\ cancel_last' = NoCancel
    /\ UNCHANGED <<streamVars, responseVars>>

\* cancel_task (cancel_event.wait()) finishes once the event is set
CancelTaskRuns(c) ==
    /\ call_op[c] = "create" /\ call_pc[c] = "waiting" /\ call_id[c] # ""
    /\ event_set[c] /\ ~cancel_task_done[c]
    /\ cancel_task_done' = [cancel_task_done EXCEPT ![c] = TRUE]
    /\ UNCHANGED <<active_requests, event_set, call_op, call_id, call_pc, backend, unread,
                   outcome, yielded, chunk_count>>
    /\ cancel_last' = NoCancel
    /\ UNCHANGED <<streamVars, responseVars>>

\* the rest of create_chat_completion from the point where nothing is awaited any
\* more: the call returns or raises, the finally clause runs, and the frame with
\* its tasks and its Event is gone
FinishCreate(c, ended) ==
    /\ outcome' = [outcome EXCEPT ![c] = Deliver(ended)]
    /\ active_requests' = Unregister(active_requests, call_id[c])
    /\ call_pc' = [call_pc EXCEPT ![c] = "done"]
    /\ event_set' = [event_set EXCEPT ![c] = FALSE]
    /\ backend' = [backend EXCEPT ![c] = "pending"]
    /\ cancel_task_done' = [cancel_task_done EXCEPT ![c] = FALSE]

\* the coroutine resumes from asyncio.wait (or, without request id, from
\* awaiting completion_task); a pending task is cancelled and awaited
CreateResume(c) ==
    /\ call_op[c] = "create" /\ call_pc[c] = "waiting"
    /\ backend[c] # "pending" \/ (call_id[c] # "" /\ cancel_task_done[c])
    /\ IF call_id[c] = "" \/ (backend[c] # "pending" /\ cancel_task_done[c])
       THEN FinishCreate(c, TryBodyEnds(cancel_task_done[c], backend[c]))
       ELSE /\ call_pc' = [call_pc EXCEPT ![c] = "cleanup"]
            /\ UNCHANGED <<outcome, active_requests, event_set, backend, cancel_task_done>>
    /\ UNCHANGED <<call_op, call_id, yielded, chunk_count, unread>>
    /\ cancel_last' = NoCancel
    /\ UNCHANGED <<streamVars, responseVars>>

\* the cancelled pending task has ended: the call returns or raises
CreateFinish(c) ==
    /\ call_op[c] = "create" /\ call_pc[c] = "cleanup"
    /\ FinishCreate(c, TryBodyEnds(cancel_task_done[c], backend[c]))
    /\ UNCHANGED <<call_op, call_id, yielded, chunk_count, unread>>
    /\ cancel_last' = NoCancel
    /\ UNCHANGED <<streamVars, responseVars>>

\* ---- create_chat_completion_stream, an async generator

\* a chunk of the backend stream: its finish_reason ("" for None), whether it
\* carries usage, and whether model_dump/json.dumps succeed on it
BackendChunk(finish_reason, has_usage, dumps) ==
    [finish_reason |-> finish_reason, has_usage |-> has_usage, dumps |-> dumps]
BackendChunks ==
    { BackendChunk("", FALSE, TRUE), BackendChunk("stop", FALSE, TRUE),
      BackendChunk("", FALSE, FALSE) }

\* the chunk that ends a response asked for with stream_options.include_usage:
\* "choices": [] and the usage of the whole request; it follows the chunk that
\* carries the finish_reason
UsageChunk == BackendChunk("", TRUE, TRUE)

\* what a streamed response may still hold after its finishing chunk
Remainders == { <<>>, <<UsageChunk>> }

TerminalFinishReasons == {"stop", "length", "function_call", "tool_calls", "content_filter"}

\* an item the generator yields: a data line holding a chunk, an error payload,
\* or the [DONE] line
Item(kind, error_type, ch) ==
    [kind |-> kind, error_type |-> error_type, finish_reason |-> ch.finish_reason,
     has_usage |-> ch.has_usage]
NoChunk == BackendChunk("", FALSE, TRUE)
ErrorItem(error_type) == Item("error", error_type, NoChunk)
DoneItem == Item("done", "", NoChunk)

CancellationNeverSeen(c) == FALSE

\* the "quick cancellation check" on the registry
CancellationSeen(c) ==
    /\ call_id[c] # ""
    /\ call_id[c] \in DOMAIN active_requests
    /\ event_set[active_requests[call_id[c]]]

Yield(c, item, pc) ==
    /\ yielded' = [yielded EXCEPT ![c] = Append(@, item)]
    /\ call_pc' = [call_pc EXCEPT ![c] = pc]

\* the generator object is made; its body has not started (the interleavings
\* explored have at most one streaming call, beside any create_chat_completion)
StreamCreate(c) ==
    /\ CanStart(c)
    /\ \A d \in Calls : call_op[d] # "stream"
    /\ \E id \in CallIds(c) : call_id' = [call_id EXCEPT ![c] = id]
    /\ call_op' = [call_op EXCEPT ![c] = "stream"]
    /\ call_pc' = [call_pc EXCEPT ![c] = "created"]
    /\ UNCHANGED <<active_requests, event_set, backend, unread,
                   cancel_task_done, outcome, yielded,                    chunk_count>>
    /\ cancel_last' = NoCancel
    /\ UNCHANGED <<streamVars, responseVars>>

\* the first __anext__: the body runs to  await ...create(**request)
StreamBegin(c) ==
    /\ call_op[c] = "stream" /\ call_pc[c] = "created"
    /\ active_requests' = Register(active_requests, call_id[c], c)
    /\ event_set' = [event_set EXCEPT ![c] = FALSE]
    /\ call_pc' = [call_pc EXCEPT ![c] = "connecting"]
    /\ UNCHANGED <<call_op, call_id, backend, unread,
                   cancel_task_done, outcome, yielded,                    chunk_count>>
    /\ cancel_last' = NoCancel
    /\ UNCHANGED <<streamVars, responseVars>>

ConnectOk(c) ==
    /\ call_op[c] = "stream" /\ call_pc[c] = "connecting"
    /\ call_pc' = [call_pc EXCEPT ![c] = "fetching"]
    /\ UNCHANGED <<active_requests, event_set, call_op, call_id, backend, unread,
                   cancel_task_done, outcome, yielded, chunk_count>>
    /\ cancel_last' = NoCancel
    /\ UNCHANGED <<streamVars, responseVars>>

ConnectFailsNoReturn(c) ==
    /\ call_op[c] = "stream" /\ call_pc[c] = "connecting"
    /\ Yield(c, ErrorItem("connection_error"), "at_chunk")
    /\ UNCHANGED <<active_requests, event_set, call_op, call_id, backend, unread,
                   cancel_task_done,                    outcome, chunk_count>>
    /\ cancel_last' = NoCancel
    /\ UNCHANGED <<streamVars, responseVars>>

\* create(**request) raises: the connection_error payload is yielded, then return
ConnectFails(c) ==
    /\ call_op[c] = "stream" /\ call_pc[c] = "connecting"
    /\ Yield(c, ErrorItem("connection_error"), "at_final")
    /\ UNCHANGED <<active_requests, event_set, call_op, call_id, backend, unread,
                   cancel_task_done,                    outcome, chunk_count>>
    /\ cancel_last' = NoCancel
    /\ UNCHANGED <<streamVars, responseVars>>

\* a chunk arrives within the timeout: cancellation check, then dump and yield
ChunkArrives(c) ==
    /\ call_op[c] = "stream" /\ call_pc[c] = "fetching" /\ chunk_count[c] < MaxChunks
    /\ chunk_count' = [chunk_count EXCEPT ![c] = @ + 1]
    /\ \E ch \in BackendChunks :
        IF CancellationSeen(c)
        THEN Yield(c, ErrorItem("client_error"), "at_final")
        ELSE IF ~ch.dumps
        THEN UNCHANGED <<yielded, call_pc>>
        ELSE Yield(c, Item("chunk", "", ch), "at_chunk")
    /\ UNCHANGED <<active_requests, event_set, call_op, call_id, backend, unread,
                   cancel_task_done,                    outcome>>
    /\ cancel_last' = NoCancel
    /\ UNCHANGED <<streamVars, responseVars>>

\* StopAsyncIteration: the loop ends and [DONE] is yielded
StreamEnds(c) ==
    /\ call_op[c] = "stream" /\ call_pc[c] = "fetching"
    /\ Yield(c, DoneItem, "at_done")
    /\ UNCHANGED <<active_requests, event_set, call_op, call_id, backend, unread,
                   cancel_task_done,                    outcome, chunk_count>>
    /\ cancel_last' = NoCancel
    /\ UNCHANGED <<streamVars, responseVars>>

TimeoutKeepsWaiting(c) ==
    /\ call_op[c] = "stream" /\ call_pc[c] = "fetching"
    /\ Yield(c, ErrorItem("timeout_error"), "at_chunk")
    /\ UNCHANGED <<active_requests, event_set, call_op, call_id, backend, unread,
                   cancel_task_done,                    outcome, chunk_count>>
    /\ cancel_last' = NoCancel
    /\ UNCHANGED <<streamVars, responseVars>>

\* asyncio.TimeoutError of wait_for(..., timeout=30.0)
ChunkTimeout(c) ==
    /\ call_op[c] = "stream" /\ call_pc[c] = "fetching"
    /\ Yield(c, ErrorItem("timeout_error"), "at_final")
    /\ UNCHANGED <<active_requests, event_set, call_op, call_id, backend, unread,
                   cancel_task_done,                    outcome, chunk_count>>
    /\ cancel_last' = NoCancel
    /\ UNCHANGED <<streamVars, responseVars>>

\* any other exception of the iteration
StreamFails(c) ==
    /\ call_op[c] = "stream" /\ call_pc[c] = "fetching"
    /\ Yield(c, ErrorItem("stream_error"), "at_final")
    /\ UNCHANGED <<active_requests, event_set, call_op, call_id, backend, unread,
                   cancel_task_done,                    outcome, chunk_count>>
    /\ cancel_last' = NoCancel
    /\ UNCHANGED <<streamVars, responseVars>>

FinishKeepsEntry(c, pc) ==
    /\ call_pc' = [call_pc EXCEPT ![c] = pc]
    /\ active_requests' = active_requests
    /\ event_set' = [event_set EXCEPT ![c] = FALSE]
    /\ chunk_count' = [chunk_count EXCEPT ![c] = 0]
    /\ unread' = [unread EXCEPT ![c] = <<>>]

\* the generator ends: the finally clause runs and the frame with its chunk
\* counter and its Event is gone
FinishStream(c, pc) ==
    /\ call_pc' = [call_pc EXCEPT ![c] = pc]
    /\ active_requests' = Unregister(active_requests, call_id[c])
    /\ event_set' = [event_set EXCEPT ![c] = FALSE]
    /\ chunk_count' = [chunk_count EXCEPT ![c] = 0]
    /\ unread' = [unread EXCEPT ![c] = <<>>]

\* the consumer asks for the next item while the generator stands at a yield;
\* after a chunk with a terminal finish_reason the loop is left without asking
\* the response for more, whatever it still holds
ConsumerNext(c) ==
    /\ call_op[c] = "stream" /\ call_pc[c] \in {"at_chunk", "at_final", "at_done"}
    /\ IF call_pc[c] = "at_chunk"
       THEN /\ IF yielded[c][Len(yielded[c])].finish_reason \in TerminalFinishReasons
               THEN /\ Yield(c, DoneItem, "at_done")
                    /\ \E rest \in Remainders : unread' = [unread EXCEPT ![c] = rest]
               ELSE /\ call_pc' = [call_pc EXCEPT ![c] = "fetching"]
                    /\ UNCHANGED <<yielded, unread>>
            /\ UNCHANGED <<active_requests, event_set, chunk_count>>
       ELSE /\ FinishStream(c, "finished")
            /\ UNCHANGED yielded
    /\ UNCHANGED <<call_op, call_id, backend, cancel_task_done, outcome>>
    /\ cancel_last' = NoCancel
    /\ UNCHANGED <<streamVars, responseVars>>

\* the consumer closes the generator (aclose, or its finalisation once dropped):
\* GeneratorExit at the yield runs the finally clause; a generator that never
\* started runs nothing
ConsumerCloses(c) ==
    /\ call_op[c] = "stream" /\ call_pc[c] \in {"created", "at_chunk", "at_final", "at_done"}
    /\ IF call_pc[c] = "created"
       THEN /\ call_pc' = [call_pc EXCEPT ![c] = "closed"]
            /\ UNCHANGED <<active_requests, event_set, chunk_count, unread>>
       ELSE FinishStream(c, "closed")
    /\ UNCHANGED <<call_op, call_id, backend, cancel_task_done, outcome, yielded>>
    /\ cancel_last' = NoCancel
    /\ UNCHANGED <<streamVars, responseVars>>

CancelRequestBlind ==
    /\ \E id \in RequestIds :
        /\ event_set' = IF id \in DOMAIN active_requests
                        THEN [event_set EXCEPT ![active_requests[id]] = TRUE]
                        ELSE event_set
        /\ cancel_last' = [request_id |-> id, result |-> TRUE]
    /\ UNCHANGED <<active_requests, call_op, call_id, call_pc, backend, unread,
                   cancel_task_done,                    outcome, yielded, chunk_count>>
    /\ UNCHANGED <<streamVars, responseVars>>

\* cancel_request(request_id)
CancelRequest ==
    /\ \E id \in RequestIds :
        LET found == id \in DOMAIN active_requests IN
        /\ event_set' = IF found THEN [event_set EXCEPT ![active_requests[id]] = TRUE]
                        ELSE event_set
        /\ cancel_last' = [request_id |-> id, result |-> found]
    /\ UNCHANGED <<active_requests, call_op, call_id, call_pc, backend, unread,
                   cancel_task_done,                    outcome, yielded, chunk_count>>
    /\ UNCHANGED <<streamVars, responseVars>>

-----------------------------------------------------------------------------
(* The TokenEstimator, one call *)

NoEstimate == [function |-> "", tokens |-> 0]
Estimate(function, tokens) == [function |-> function, tokens |-> tokens]

\* estimate_text_tokens(est_text) returns
EstimateText ==
    /\ est_result = NoEstimate
    /\ est_result' = Estimate("estimate_text_tokens", estimate_text_tokens(est_text))
    /\ UNCHANGED <<error_detail, error_guidance, est_text, est_request, limitVars>>
    /\ UNCHANGED <<openai_response, response_request, response_estimation, claude_response>>
    /\ UNCHANGED <<streamVars, clientVars>>

\* estimate_messages_tokens(est_request.messages) returns
EstimateMessages ==
    /\ est_result = NoEstimate
    /\ est_result' = Estimate("estimate_messages_tokens",
                              estimate_messages_tokens(est_request.messages))
    /\ UNCHANGED <<error_detail, error_guidance, est_text, est_request, limitVars>>
    /\ UNCHANGED <<openai_response, response_request, response_estimation, claude_response>>
    /\ UNCHANGED <<streamVars, clientVars>>

\* estimate_request_input_tokens(est_request) returns
EstimateRequest ==
    /\ est_result = NoEstimate
    /\ est_result' = Estimate("estimate_request_input_tokens",
                              estimate_input_tokens(est_request))
    /\ UNCHANGED <<error_detail, error_guidance, est_text, est_request, limitVars>>
    /\ UNCHANGED <<openai_response, response_request, response_estimation, claude_response>>
    /\ UNCHANGED <<streamVars, clientVars>>

-----------------------------------------------------------------------------
(* The max_tokens resolution of the request builder (convert_claude_to_openai
   of src/conversion/request_converter.py, a file that is not among the sources;
   the rule is the one the specification gives for the RequestBuilder, which is
   also the one explain_token_params.py prints and test_default_max_tokens.py
   exercises) *)

\* config.min_tokens_limit, config.max_tokens_limit, config.default_max_tokens
Limits(min_tokens_limit, max_tokens_limit, default_max_tokens) ==
    [min_tokens_limit |-> min_tokens_limit, max_tokens_limit |-> max_tokens_limit,
     default_max_tokens |-> default_max_tokens]

\* no backend parameters built yet
NotSent == [sent |-> FALSE, max_tokens |-> 0]
Sent(max_tokens) == [sent |-> TRUE, max_tokens |-> max_tokens]

KeepsRequested(requested, cfg) == requested

\* the configured default replaces a requested value that is <= 0 or below the minimum
effective_max_tokens(requested, cfg) ==
    IF requested <= 0 \/ requested < cfg.min_tokens_limit
    THEN cfg.default_max_tokens
    ELSE requested

\* min(max(effective_max_tokens, MIN_TOKENS_LIMIT), MAX_TOKENS_LIMIT)
final_tokens(requested, cfg) ==
    Min(Max(effective_max_tokens(requested, cfg), cfg.min_tokens_limit), cfg.max_tokens_limit)

\* the backend parameters are built
ResolveMaxTokens ==
    /\ ~sent_max_tokens.sent
    /\ sent_max_tokens' = Sent(final_tokens(requested_max_tokens, token_limits))
    /\ UNCHANGED <<requested_max_tokens, token_limits, endpointVars>>
    /\ UNCHANGED <<error_detail, error_guidance, est_text, est_request, est_result>>
    /\ UNCHANGED <<openai_response, response_request, response_estimation, claude_response>>
    /\ UNCHANGED <<streamVars, clientVars>>

-----------------------------------------------------------------------------
(* The backend endpoint: Config.__init__ (src/core/config.py) and
   OpenAIClient.__init__ (src/core/client.py).  A URL is a sequence of lexemes:
   "/" is one lexeme and the word openai is one lexeme wherever it occurs, so that
   an occurrence of '/openai' in the string is an occurrence of <<"/", "openai">>
   in the sequence *)

SLASH == "/"

\* s.split(sep)[0]: what precedes the first occurrence of sep, s without one
SplitFirst(s, sep) ==
    IF In(sep, s)
    THEN LET at == CHOOSE i \in 1..Len(s) :
                       /\ i + Len(sep) - 1 <= Len(s)
                       /\ SubSeq(s, i, i + Len(sep) - 1) = sep
                       /\ \A j \in 1..(i - 1) : SubSeq(s, j, j + Len(sep) - 1) # sep
         IN  SubSeq(s, 1, at - 1)
    ELSE s

\* s.rstrip('/')
RECURSIVE RStrip(_)
RStrip(s) ==
    IF s # <<>> /\ s[Len(s)] = SLASH THEN RStrip(SubSeq(s, 1, Len(s) - 1)) ELSE s

\* Config.__init__: with an API version, a base URL that contains
\* '/openai/deployments/' is replaced by what precedes its first '/openai/'
ConfigBaseUrl(url, api_version) ==
    IF api_version # "" /\ In(<<SLASH, "openai", SLASH, "deployments", SLASH>>, url)
    THEN SplitFirst(url, <<SLASH, "openai", SLASH>>)
    ELSE url

\* the azure_endpoint of OpenAIClient.__init__: the base URL up to its first
\* '/openai', without trailing slashes
AzureEndpoint(base_url) ==
    RStrip(IF In(<<SLASH, "openai">>, base_url)
           THEN SplitFirst(base_url, <<SLASH, "openai">>)
           ELSE base_url)

NoClient == [made |-> FALSE, azure |-> FALSE, endpoint |-> <<>>]
\* AsyncAzureOpenAI(azure_endpoint=endpoint, ...) or AsyncOpenAI(base_url=endpoint, ...)
Client(azure, endpoint) == [made |-> TRUE, azure |-> azure, endpoint |-> endpoint]

\* config = Config()
LoadConfig ==
    /\ ~config_loaded /\ ~backend_client.made
    /\ config_loaded' = TRUE
    /\ openai_base_url' = ConfigBaseUrl(env_base_url, azure_api_version)
    /\ UNCHANGED <<env_base_url, azure_api_version, backend_client>>
    /\ UNCHANGED <<requested_max_tokens, token_limits, sent_max_tokens>>
    /\ UNCHANGED <<error_detail, error_guidance, est_text, est_request, est_result>>
    /\ UNCHANGED <<openai_response, response_request, response_estimation, claude_response>>
    /\ UNCHANGED <<streamVars, clientVars>>

\* OpenAIClient(api_key, base_url, timeout, api_version=...), with the base URL of
\* the configuration or with the one of the environment as it is
ConstructClient ==
    /\ ~backend_client.made
    /\ backend_client' = IF azure_api_version # ""
                         THEN Client(TRUE, AzureEndpoint(openai_base_url))
                         ELSE Client(FALSE, openai_base_url)
    /\ UNCHANGED <<env_base_url, azure_api_version, config_loaded, openai_base_url>>
    /\ UNCHANGED <<requested_max_tokens, token_limits, sent_max_tokens>>
    /\ UNCHANGED <<error_detail, error_guidance, est_text, est_request, est_result>>
    /\ UNCHANGED <<openai_response, response_request, response_estimation, claude_response>>
    /\ UNCHANGED <<streamVars, clientVars>>

-----------------------------------------------------------------------------
(* The specifications *)

StreamIdle ==
    /\ variant = "basic"
    /\ original_request = DefaultRequest
    /\ enable_token_estimation = FALSE
    /\ tstate = "idle"
    /\ consumed = <<>>
    /\ events = <<>>
    /\ current_tool_calls = <<>>
    /\ tool_order = <<>>
    /\ tool_block_counter = 0
    /\ final_stop_reason = "end_turn"
    /\ total_input_tokens = 0
    /\ total_output_tokens = 0
    /\ cancel_calls = 0

\* no call of the max_tokens resolution
\* no construction of the configuration or of the client
EndpointIdle ==
    /\ env_base_url = <<>>
    /\ azure_api_version = ""
    /\ config_loaded = FALSE
    /\ openai_base_url = <<>>
    /\ backend_client = NoClient

LimitsIdle ==
    /\ requested_max_tokens = 0
    /\ token_limits = Limits(100, 4096, 1024)
    /\ sent_max_tokens = NotSent
    /\ EndpointIdle

\* no call of classify_openai_error, of the estimator or of the resolution
PureIdle ==
    /\ error_detail = <<>>
    /\ error_guidance = NoGuidance
    /\ est_text = <<>>
    /\ est_request = Request(0, <<>>, <<>>)
    /\ est_result = NoEstimate
    /\ LimitsIdle

ResponseIdle ==
    /\ openai_response = <<>>
    /\ response_request = <<>>
    /\ response_estimation = FALSE
    /\ claude_response = <<>>
    /\ PureIdle

\* the client after __init__: no request is registered
ClientInit ==
    /\ active_requests = NoRequests
    /\ event_set = [c \in Calls |-> FALSE]
    /\ call_op = [c \in Calls |-> "none"]
    /\ call_id = [c \in Calls |-> ""]
    /\ call_pc = [c \in Calls |-> "idle"]
    /\ backend = [c \in Calls |-> "pending"]
    /\ unread = [c \in Calls |-> <<>>]
    /\ cancel_task_done = [c \in Calls |-> FALSE]
    /\ outcome = [c \in Calls |-> NoOutcome]
    /\ yielded = [c \in Calls |-> <<>>]
    /\ chunk_count = [c \in Calls |-> 0]
    /\ cancel_last = NoCancel

\* Spec: one run of a stream translator over any source
Init == StreamInit /\ ResponseIdle /\ ClientInit
Next ==
    \/ Start
    \/ ConsumeSkipped
    \/ ConsumeChunk
    \/ ConsumeDone
    \/ ConsumeErrorPayload
    \/ SourceRaises
    \/ SourceExhausted
    \/ ClientDisconnected
Spec == Init /\ [][Next]_vars

\* SpecResponse: one call of the non-streaming translator on any backend result
FinishReasons == {"stop", "length", "tool_calls", "function_call", "content_filter", ""}

ResponseToolCalls ==
    { <<>>,
      <<ToolCall("function", "call_1", "f", ArgsStr(<<LBRACE, KEY, "1", RBRACE>>))>>,
      <<ToolCall("function", "", "g", ArgsStr(<<LBRACE, KEY>>)),
        ToolCall("function", "call_2", "f", ArgsAbsent)>>,
      <<ToolCall("other", "call_3", "h", ArgsStr(<<"1">>))>>,
      <<ToolCall("function", "call_4", "f", ArgsNull)>> }

ResponseChoices ==
    { Choice(c, t, TRUE, f) : c \in {<<>>, <<"a", "a", "a", "a">>, <<"C", "C", "a">>},
                               t \in ResponseToolCalls, f \in FinishReasons }
    \cup { Choice(c, <<>>, FALSE, "") : c \in {<<>>, <<"a", "a", "a", "a">>} }

Responses ==
    { Response(cs, u) :
        cs \in {<<>>} \cup { <<c>> : c \in ResponseChoices }
               \cup { <<c, Choice(<<"a">>, <<>>, TRUE, "length")>> : c \in ResponseChoices },
        u \in {NoUsage, UsageNull, Usage(0, 0), Usage(5, 0), Usage(0, 7), Usage(12, 7)} }

ResponseInit ==
    /\ openai_response \in Responses
    /\ response_request \in Requests
    /\ response_estimation \in BOOLEAN
    /\ claude_response = <<>>
    /\ PureIdle

\* the call returns (or raises)
Convert ==
    /\ claude_response = <<>>
    /\ claude_response' =
           convert_openai_to_claude_response(openai_response, response_request, response_estimation)
    /\ UNCHANGED <<openai_response, response_request, response_estimation, pureVars>>
    /\ UNCHANGED <<streamVars, clientVars>>

InitResponse == ResponseInit /\ StreamIdle /\ ClientInit
NextResponse == Convert
SpecResponse == InitResponse /\ [][NextResponse]_vars

\* SpecClient: two calls of the client and cancel_request, interleaved at the awaits
InitClient == ClientInit /\ StreamIdle /\ ResponseIdle
NextClient ==
    \/ \E c \in Calls : CreateStart(c)
    \/ \E c \in Calls : BackendCompletes(c)
    \/ \E c \in Calls : CancelTaskRuns(c)
    \/ \E c \in Calls : CreateResume(c)
    \/ \E c \in Calls : CreateFinish(c)
    \/ \E c \in Calls : StreamCreate(c)
    \/ \E c \in Calls : StreamBegin(c)
    \/ \E c \in Calls : ConnectOk(c)
    \/ \E c \in Calls : ConnectFails(c)
    \/ \E c \in Calls : ChunkArrives(c)
    \/ \E c \in Calls : StreamEnds(c)
    \/ \E c \in Calls : ChunkTimeout(c)
    \/ \E c \in Calls : StreamFails(c)
    \/ \E c \in Calls : ConsumerNext(c)
    \/ \E c \in Calls : ConsumerCloses(c)
    \/ CancelRequest
SpecClient == InitClient /\ [][NextClient]_vars

\* SpecClientFair: SpecClient where every await of the generator completes.
\* wait_for(stream_iterator.__anext__(), timeout=30.0) returns a chunk or raises
\* (StopAsyncIteration, TimeoutError, another exception) within the timeout, and
\* the consumer of the generator asks for the next item or closes it.
FetchCompletes(c) == ChunkArrives(c) \/ StreamEnds(c) \/ ChunkTimeout(c) \/ StreamFails(c)
ConsumerActs(c) == ConsumerNext(c) \/ ConsumerCloses(c)
SpecClientFair ==
    /\ SpecClient
    /\ \A c \in Calls : WF_vars(FetchCompletes(c)) /\ WF_vars(ConsumerActs(c))

\* SpecCreateFair: SpecClient where the event loop runs what is ready.  A task
\* whose awaited Event is set finishes (cancel_task), the coroutine waiting in
\* asyncio.wait resumes once a task of its set is done, and the cancelled pending
\* task it then awaits ends.
SpecCreateFair ==
    /\ SpecClient
    /\ \A c \in Calls :
        WF_vars(CancelTaskRuns(c)) /\ WF_vars(CreateResume(c)) /\ WF_vars(CreateFinish(c))

-----------------------------------------------------------------------------
(* Specification SpecPipe: a stream translator reading the generator of one
   create_chat_completion_stream call, with cancel_request called at any await *)

\* the call whose generator the translator reads
Source == 1

\* the message of the error payload the generator builds for an error type
PayloadMessage(error_type) ==
    CASE error_type = "client_error" -> "Request cancelled by client"
      [] error_type = "timeout_error" -> "Timeout waiting for streaming chunk after n chunks"
      [] error_type = "connection_error" -> "Failed to start streaming: e"
      [] error_type = "stream_error" -> "Streaming error: e"
      [] OTHER -> ""

\* the line the translator gets for an item: f"data: {json.dumps(...)}" of a chunk
\* (with one character of text) or of an error payload, or data: [DONE]
LineOf(item) ==
    CASE item.kind = "chunk" ->
             Chunk(IF item.has_usage THEN Usage(5, 10) ELSE NoUsage, <<"a">>, TcAbsent,
                   item.finish_reason)
      [] item.kind = "error" -> ErrorPayload(item.error_type, PayloadMessage(item.error_type))
      [] OTHER -> Plain("done")

\* the generator stands at a yield whose item the loop body has not seen yet
Pending == Len(consumed) < Len(yielded[Source])
PendingLine == LineOf(yielded[Source][Len(consumed) + 1])

\* the endpoint makes the generator object and hands it to the translator
PipeCreate == tstate = "init" /\ StreamCreate(Source)

\* the translator sends its three initial events
PipeStart == call_op[Source] = "stream" /\ Start

\* async for asks for the first item: the generator body starts
PipeBegin == tstate = "streaming" /\ StreamBegin(Source)

\* (the generator runs to its next yield by its own actions, taken at Source)

\* the loop body handles the item (is_disconnected() answered false)
PipeTranslate == Pending /\ Consume(PendingLine)

\* is_disconnected() raises in the iteration of the item
PipeDisconnectCheckRaises == variant = "cancel" /\ Pending /\ Consume(Raise("Exception"))

\* is_disconnected() answers true: cancel_request(request_id), break
PipeDisconnected ==
    /\ variant = "cancel" /\ Pending /\ CanFetch
    /\ consumed' = Append(consumed, Fetched(PendingLine, TRUE))
    /\ cancel_calls' = cancel_calls + 1
    /\ Install([LoopState EXCEPT !.outcome = "break"])
    /\ LET id == call_id[Source]
           found == id \in DOMAIN active_requests
       IN  /\ event_set' = IF found THEN [event_set EXCEPT ![active_requests[id]] = TRUE]
                            ELSE event_set
           /\ cancel_last' = [request_id |-> id, result |-> found]
    /\ UNCHANGED <<variant, original_request, enable_token_estimation>>
    /\ UNCHANGED <<active_requests, call_op, call_id, call_pc, backend, unread,
                   cancel_task_done,                    outcome, yielded, chunk_count>>
    /\ UNCHANGED responseVars

\* the loop asks for the next item
PipeNext == tstate = "streaming" /\ ~Pending /\ ConsumerNext(Source)

\* the generator has finished: the loop ends
PipeExhausted == call_pc[Source] = "finished" /\ SourceExhausted

\* the translator has ended and the generator it was reading is closed
PipeClose == tstate \in {"done", "error", "raised"} /\ ConsumerCloses(Source)

InitPipe == StreamInit /\ ResponseIdle /\ ClientInit
NextPipe ==
    \/ PipeCreate
    \/ PipeStart
    \/ PipeBegin
    \/ ConnectOk(Source)
    \/ ConnectFails(Source)
    \/ ChunkArrives(Source)
    \/ StreamEnds(Source)
    \/ ChunkTimeout(Source)
    \/ StreamFails(Source)
    \/ PipeTranslate
    \/ PipeDisconnectCheckRaises
    \/ PipeDisconnected
    \/ PipeNext
    \/ PipeExhausted
    \/ PipeClose
    \/ CancelRequest
SpecPipe == InitPipe /\ [][NextPipe]_vars

\* SpecPipeFair: SpecPipe where the generator of a translator that has ended is
\* closed.  The translator's frame holds the only reference to the generator; when
\* the translator ends the generator is dropped while suspended at a yield, and the
\* event loop's asynchronous-generator finalizer runs its aclose().
SpecPipeFair == SpecPipe /\ WF_vars(PipeClose)

\* SpecClassify: one call of classify_openai_error on a text of up to MaxFragments
\* fragments
ErrorFragments ==
    { <<"Resource", "not", "found">>, <<"404">>,
      <<"unsupported_country_region_territory">>,
      <<"country,", "region,", "or", "territory", "not", "supported">>,
      <<"invalid_api_key">>, <<"Unauthorized">>, <<"rate_limit">>, <<"QUOTA">>,
      <<"model">>, <<"not", "found">>, <<"does", "not", "exist">>,
      <<"billing">>, <<"payment">>, <<"azure">>, <<"endpoint">>, <<"Timeout">> }

RECURSIVE ErrorTexts(_)
ErrorTexts(k) ==
    IF k = 0 THEN { <<>> }
    ELSE LET shorter == ErrorTexts(k - 1) IN
         shorter \cup { t \o f : t \in shorter, f \in ErrorFragments }

InitClassify ==
    /\ error_detail \in ErrorTexts(MaxFragments)
    /\ error_guidance = NoGuidance
    /\ est_text = <<>> /\ est_request = Request(0, <<>>, <<>>) /\ est_result = NoEstimate
    /\ LimitsIdle
    /\ openai_response = <<>> /\ response_request = <<>>
    /\ response_estimation = FALSE /\ claude_response = <<>>
    /\ StreamIdle /\ ClientInit
NextClassify == Classify
SpecClassify == InitClassify /\ [][NextClassify]_vars

\* SpecEstimator: one call of a function of the TokenEstimator
Chars == {"a", "C"}
RECURSIVE TextsUpTo(_)
TextsUpTo(n) ==
    IF n = 0 THEN { <<>> }
    ELSE LET shorter == TextsUpTo(n - 1) IN
         shorter \cup { Append(t, ch) : t \in shorter, ch \in Chars }
Repeat(ch, n) == [i \in 1..n |-> ch]
EstTexts == TextsUpTo(MaxTextLen) \cup { Repeat("a", 400), Repeat("C", 120) }

EstMessageSet ==
    { Message(<<>>), Message(Repeat("a", 8)), Message(<<"C", "C", "C">>),
      RolelessMessage(Repeat("a", 4)),
      ListMessage(<<<<"a", "a">>, <<"C", "C">>>>), ListMessage(<<>>) }
RECURSIVE MessageLists(_)
MessageLists(n) ==
    IF n = 0 THEN { <<>> }
    ELSE LET shorter == MessageLists(n - 1) IN
         shorter \cup { Append(l, m) : l \in shorter, m \in EstMessageSet }
EstRequests ==
    { Request(1024, messages, system) :
        messages \in MessageLists(MaxMessages),
        system \in { <<>>, <<"C", "C", "C">>, Repeat("a", 9) } }

InitEstimator ==
    /\ \/ est_text \in EstTexts /\ est_request = Request(0, <<>>, <<>>)
       \/ est_text = <<>> /\ est_request \in EstRequests
    /\ est_result = NoEstimate
    /\ error_detail = <<>> /\ error_guidance = NoGuidance
    /\ LimitsIdle
    /\ openai_response = <<>> /\ response_request = <<>>
    /\ response_estimation = FALSE /\ claude_response = <<>>
    /\ StreamIdle /\ ClientInit
NextEstimator ==
    \/ EstimateText
    \/ EstimateMessages
    \/ EstimateRequest
SpecEstimator == InitEstimator /\ [][NextEstimator]_vars

\* SpecLimits: one resolution of max_tokens, for any request and configuration
RequestedValues ==
    { -100, -1, 0, 1, 50, 99, 100, 101, 512, 1023, 1024, 1025, 4095, 4096, 4097, 8192 }
ConfiguredLimits ==
    { Limits(100, 4096, 1024),      \* the defaults of config.py
      Limits(100, 4096, 50),        \* a default below the minimum
      Limits(100, 4096, 8192),      \* a default above the maximum
      Limits(512, 512, 1024),       \* minimum and maximum equal
      Limits(0, 1024, 0),
      Limits(-1, 4096, -100),
      Limits(1024, 100, 512) }      \* a minimum above the maximum

InitLimits ==
    /\ requested_max_tokens \in RequestedValues
    /\ token_limits \in ConfiguredLimits
    /\ sent_max_tokens = NotSent
    /\ EndpointIdle
    /\ error_detail = <<>> /\ error_guidance = NoGuidance
    /\ est_text = <<>> /\ est_request = Request(0, <<>>, <<>>) /\ est_result = NoEstimate
    /\ openai_response = <<>> /\ response_request = <<>>
    /\ response_estimation = FALSE /\ claude_response = <<>>
    /\ StreamIdle /\ ClientInit
NextLimits == ResolveMaxTokens
SpecLimits == InitLimits /\ [][NextLimits]_vars

\* SpecEndpoint: one configuration and one client, for any base URL
Schemes == { <<"https:">>, <<"http:">> }
Hosts ==
    { <<"res.azure.com">>,
      <<"roy-key-us-east-2.", "openai", ".azure.com">>,
      <<"openai", "-east.", "openai", ".azure.com">>,     \* a resource named openai-east
      <<"my-", "openai", ".azure.com">> }
DeploymentPaths ==
    { <<SLASH, "openai", SLASH, "deployments", SLASH, "gpt-4.1">>,
      <<SLASH, "openai", SLASH, "deployments", SLASH, "gpt-4.1", SLASH, "chat", SLASH,
        "completions">>,
      <<SLASH, "openai", SLASH, "deployments", SLASH, "gpt-4.1", SLASH>>,
      <<SLASH, SLASH, "openai", SLASH, "deployments", SLASH, "gpt-4.1">> }
OtherPaths == { <<>>, <<SLASH>>, <<SLASH, SLASH>>, <<SLASH, "openai">>, <<SLASH, "v1">> }
Url(scheme, host, path) == scheme \o <<SLASH, SLASH>> \o host \o path

InitEndpoint ==
    /\ \E scheme \in Schemes, host \in Hosts, path \in DeploymentPaths \cup OtherPaths :
          env_base_url = Url(scheme, host, path)
    /\ azure_api_version \in {"", "2024-02-01"}
    /\ config_loaded = FALSE
    /\ openai_base_url = env_base_url
    /\ backend_client = NoClient
    /\ requested_max_tokens = 0 /\ token_limits = Limits(100, 4096, 1024)
    /\ sent_max_tokens = NotSent
    /\ error_detail = <<>> /\ error_guidance = NoGuidance
    /\ est_text = <<>> /\ est_request = Request(0, <<>>, <<>>) /\ est_result = NoEstimate
    /\ openai_response = <<>> /\ response_request = <<>>
    /\ response_estimation = FALSE /\ claude_response = <<>>
    /\ StreamIdle /\ ClientInit
NextEndpoint ==
    \/ LoadConfig
    \/ ConstructClient
SpecEndpoint == InitEndpoint /\ [][NextEndpoint]_vars

-----------------------------------------------------------------------------
(* Properties of the client (checked under SpecClient) *)

\* the call has registered and has not yet run its finally clause
InFlight(c) ==
    \/ call_op[c] = "create" /\ call_pc[c] \in {"waiting", "cleanup"}
    \/ call_op[c] = "stream"
         /\ call_pc[c] \in {"connecting", "fetching", "at_chunk", "at_final", "at_done"}

Terminal(c) == call_pc[c] \in {"done", "finished", "closed"}

\* the call has a request id that no other call has been given
SoleUser(c) ==
    /\ call_id[c] # ""
    /\ \A d \in Calls \ {c} : call_op[d] = "none" \/ call_id[d] # call_id[c]

\* C5: once cancel_request(id) has set the flag of a streaming call (the only call
\* using that id), the next chunk fetched from the backend is not yielded: the
\* generator yields the client_error payload "Request cancelled by client" instead,
\* and after that payload it yields nothing more and only ends.
C5_NoChunkAfterCancel ==
    [][\A c \in Calls :
          /\ (call_op[c] = "stream" /\ SoleUser(c) /\ event_set[c]
                /\ chunk_count'[c] = chunk_count[c] + 1)
             => /\ yielded'[c] = Append(yielded[c], ErrorItem("client_error"))
                /\ call_pc'[c] = "at_final"
          /\ (call_op[c] = "stream" /\ call_pc[c] = "at_final")
             => /\ yielded'[c] = yielded[c]
                /\ call_pc'[c] \in {"at_final", "finished", "closed"}]_vars

\* a stream yielded a chunk, was then cancelled, and ended with the cancellation payload
C5_Witness ==
    \E c \in Calls :
        /\ call_op[c] = "stream" /\ SoleUser(c) /\ event_set[c]
        /\ Len(yielded[c]) = 2
        /\ yielded[c][1].kind = "chunk"
        /\ yielded[c][2] = ErrorItem("client_error")
        /\ call_pc[c] = "at_final"

\* C6: a create_chat_completion whose cancel_task completed while the backend call
\* was in flight ends with HTTPException(499, "Request cancelled by client").
C6_CancelledGets499 ==
    [][\A c \in Calls :
          (call_op[c] = "create" /\ cancel_task_done[c] /\ backend[c] = "pending"
             /\ call_pc'[c] = "done")
          => outcome'[c] = HTTPException(499, <<"Request cancelled by client">>)]_vars

\* C7: when a call that had registered reaches its end (returned, raised, generator
\* finished or closed), the registry holds no entry for its id; and whenever no
\* call is in flight the registry is empty.
C7_RegistryCleanup ==
    [][/\ \A c \in Calls :
            (InFlight(c) /\ Terminal(c)') => call_id[c] \notin DOMAIN active_requests'
       /\ (\A c \in Calls : ~InFlight(c))' => active_requests' = NoRequests]_vars

\* both calls had a request id and have ended, one create cancelled and one stream
\* after a timeout
C7_Witness ==
    /\ active_requests = NoRequests
    /\ \E c, d \in Calls :
        /\ call_op[c] = "create" /\ call_pc[c] = "done" /\ call_id[c] # ""
        /\ outcome[c].status_code = 401
        /\ call_op[d] = "stream" /\ call_pc[d] = "finished" /\ call_id[d] # ""
        /\ yielded[d] # <<>>
        /\ yielded[d][Len(yielded[d])] = ErrorItem("timeout_error")

\* C8: cancel_request(id) returns true exactly when the registry holds an entry for
\* id, and then sets that entry's flag and changes nothing else; a flag once set
\* stays set; while the only call using id is running every call returns true and
\* leaves its flag set; when no call with that id is running it returns false and
\* changes nothing; and a call that starts registers a fresh, unset flag, whatever
\* was cancelled before.
C8_CancelRequest ==
    [][/\ CancelRequest =>
            LET id == cancel_last'.request_id
                res == cancel_last'.result
            IN  /\ res = (id \in DOMAIN active_requests)
                /\ active_requests' = active_requests
                /\ res => event_set' = [event_set EXCEPT ![active_requests[id]] = TRUE]
                /\ ~res => event_set' = event_set
                /\ \A c \in Calls :
                      (InFlight(c) /\ SoleUser(c) /\ call_id[c] = id)
                      => res /\ event_set'[c]
                /\ (\A c \in Calls : InFlight(c) => call_id[c] # id) => ~res
       /\ \A c \in Calls :
            /\ (InFlight(c) /\ InFlight(c)' /\ event_set[c]) => event_set'[c]
            /\ (~InFlight(c) /\ InFlight(c)')
               => /\ ~event_set'[c]
                  /\ call_id'[c] # "" => active_requests'[call_id'[c]] = c]_vars

\* a cancel_request made before the call started returned false, the call then
\* started with that id unset, and a second call, running, was cancelled twice
C8_Witness ==
    /\ cancel_last = [request_id |-> "r1", result |-> TRUE]
    /\ InFlight(1) /\ call_id[1] = "r1" /\ event_set[1]
    /\ InFlight(2) /\ call_id[2] = "r2" /\ ~event_set[2]

-----------------------------------------------------------------------------
(* Properties of the stream translators (checked under Spec) *)

EventsOf(type) == { i \in 1..Len(events) : events[i].type = type }

\* the stops that close the block started by event i
StopsFor(i) ==
    { j \in EventsOf("content_block_stop") : events[j].index = events[i].index }

\* every content_block_start is followed by exactly one content_block_stop of its index
EveryBlockClosedOnce ==
    \A i \in EventsOf("content_block_start") :
        /\ Cardinality(StopsFor(i)) = 1
        /\ \A j \in StopsFor(i) : j > i

\* C1 as stated: whatever the source gives, once the event stream has ended every
\* content_block_start has exactly one content_block_stop of the same index after it.
C1_EveryBlockClosed ==
    tstate \in {"done", "error", "raised"} => EveryBlockClosedOnce

\* C1, amended: when the translation ends normally (source exhausted, [DONE], a
\* finish_reason chunk, or the client found disconnected) every content_block_start
\* has exactly one content_block_stop of the same index after it; when it ends with
\* an error event or an exception, no content_block_stop is emitted at all.
C1_BlocksClosedOnNormalEnd ==
    /\ tstate = "done" => EveryBlockClosedOnce
    /\ tstate \in {"error", "raised"} => EventsOf("content_block_stop") = {}

\* a normal end with the text block and two tool blocks, all closed
C1_Witness ==
    /\ tstate = "done"
    /\ Cardinality(EventsOf("content_block_start")) = 3
    /\ Cardinality(EventsOf("content_block_stop")) = 3

ProcessedChunks ==
    LET Handled(f) == ~f.disconnected /\ f.line.kind = "chunk" /\ f.line.has_choices
        kept == SelectSeq(consumed, Handled)
    IN  [i \in 1..Len(kept) |-> kept[i].line]

\* the message_delta of a finished stream
FinalMessageDelta == events[Len(events) - 1]

RECURSIVE Concat(_)
Concat(seqs) == IF seqs = <<>> THEN <<>> ELSE Head(seqs) \o Concat(Tail(seqs))

\* the tool-call deltas of the handled chunks, in order
RECURSIVE DeltasOf(_)
DeltasOf(chunks) ==
    IF chunks = <<>> THEN <<>> ELSE Head(chunks).tool_calls.list \o DeltasOf(Tail(chunks))

\* the argument fragments accumulated for the tool call with backend index k:
\* those that arrive once its id and its name are known
RECURSIVE Accumulated(_, _, _, _)
Accumulated(deltas, k, has_id, has_name) ==
    IF deltas = <<>> THEN <<>>
    ELSE LET d == Head(deltas)
             mine == (IF d.has_index THEN d.index ELSE 0) = k
             id1 == has_id \/ (mine /\ d.id # "")
             name1 == has_name \/ (mine /\ d.name # "")
         IN  (IF mine /\ id1 /\ name1 /\ d.args.state = "str" THEN <<d.args.frag>> ELSE <<>>)
             \o Accumulated(Tail(deltas), k, id1, name1)

\* the accumulated text parses with the last fragment and with no fragment before
FirstParsesAtLast(frags) ==
    /\ frags # <<>>
    /\ JsonLoadsOk(Concat(frags))
    /\ \A n \in 1..(Len(frags) - 1) : ~JsonLoadsOk(Concat(SubSeq(frags, 1, n)))

\* C3: for a tool call whose accumulated argument text parses as JSON for the
\* first time when its last fragment arrives, exactly one input_json_delta is
\* emitted for its block, and its partial_json is the concatenation of the fragments.
C3_OneJsonDelta ==
    \A k \in DOMAIN current_tool_calls :
        LET frags == Accumulated(DeltasOf(ProcessedChunks), k, FALSE, FALSE)
            sent == { i \in EventsOf("content_block_delta") :
                        /\ events[i].delta = "input_json_delta"
                        /\ events[i].index = current_tool_calls[k].claude_index }
        IN  FirstParsesAtLast(frags) =>
                /\ Cardinality(sent) = 1
                /\ \A i \in sent : events[i].partial_json = Concat(frags)

\* the fragments "", {"a":1 and } arrived for one tool call and its block got the
\* one delta {"a":1}
C3_Witness ==
    /\ 0 \in DOMAIN current_tool_calls
    /\ Accumulated(DeltasOf(ProcessedChunks), 0, FALSE, FALSE)
         = << <<>>, <<LBRACE, KEY, "1">>, <<RBRACE>> >>
    /\ \E i \in 1..Len(events) :
          events[i] = InputJsonDelta(1, <<LBRACE, KEY, "1", RBRACE>>)

\* the last positive value of a usage field over the chunks, 0 when there is none
RECURSIVE LastPositive(_, _)
LastPositive(chunks, field) ==
    IF chunks = <<>> THEN 0
    ELSE LET u == chunks[Len(chunks)].usage
             v == IF field = "prompt_tokens"
                  THEN (IF u.has /\ u.has_pt THEN u.pt ELSE 0)
                  ELSE (IF u.has /\ u.has_ct THEN u.ct ELSE 0)
         IN  IF v > 0 THEN v ELSE LastPositive(SubSeq(chunks, 1, Len(chunks) - 1), field)

StopReasonTable(finish_reason) ==
    CASE finish_reason = "stop" -> "end_turn"
      [] finish_reason = "length" -> "max_tokens"
      [] finish_reason \in {"tool_calls", "function_call"} -> "tool_use"
      [] OTHER -> "end_turn"

\* the finish_reason the stream ended with, "" when no chunk carried one
StreamFinishReason ==
    IF ProcessedChunks = <<>> THEN "" ELSE ProcessedChunks[Len(ProcessedChunks)].finish_reason

\* C9: the stop_reason of a finished stream is the table's value for the
\* finish_reason the stream ended with, and the non-streaming translator gives the
\* same value for that finish_reason, be the key absent or present.
C9_SameStopReason ==
    tstate = "done" =>
        /\ FinalMessageDelta.stop_reason = StopReasonTable(StreamFinishReason)
        /\ ResponseStopReason(StreamFinishReason # "", StreamFinishReason)
             = FinalMessageDelta.stop_reason
        /\ ResponseStopReason(TRUE, StreamFinishReason) = FinalMessageDelta.stop_reason

\* a stream that ended with finish_reason length reported max_tokens
C9_Witness ==
    /\ tstate = "done"
    /\ StreamFinishReason = "length"
    /\ FinalMessageDelta.stop_reason = "max_tokens"

-----------------------------------------------------------------------------
(* Properties of the non-streaming translator (checked under SpecResponse) *)

Translated == claude_response # <<>> /\ claude_response.outcome = "message"

\* C10: the content of a translated message is never empty, and when the backend
\* message has no text and no function tool call it is one text block with empty text.
C10_ContentNeverEmpty ==
    Translated =>
        LET message == openai_response.choices[1] IN
        /\ claude_response.content # <<>>
        /\ (/\ message.content = <<>>
            /\ \A i \in 1..Len(message.tool_calls) : message.tool_calls[i].type # "function")
           => claude_response.content = <<TextBlock(<<>>)>>

\* a backend message whose only tool call is not a function was translated
C10_Witness ==
    /\ Translated
    /\ openai_response.choices[1].content = <<>>
    /\ Len(openai_response.choices[1].tool_calls) = 1
    /\ claude_response.content = <<TextBlock(<<>>)>>

\* the backend's count under a key of the usage object, 0 when there is none
BackendCount(usage, has_key, value) == IF usage.has /\ has_key THEN value ELSE 0

\* C11: for every backend result with a first choice whose tool arguments decode, the
\* translated message carries a usage record; it holds the backend's prompt and
\* completion counts unchanged when at least one of them is non-zero, and, when both
\* are zero or the backend gave no usage and estimation is enabled, the estimate of
\* the original request and the estimate of the concatenated text of the text blocks.
C11_UsageReported ==
    (/\ claude_response # <<>>
     /\ openai_response.choices # <<>>
     /\ ~HasNullArguments(openai_response.choices[1].tool_calls))
    => LET usage == openai_response.usage
           prompt_tokens == BackendCount(usage, usage.has_pt, usage.pt)
           completion_tokens == BackendCount(usage, usage.has_ct, usage.ct)
       IN  /\ claude_response.outcome = "message"
           /\ (prompt_tokens # 0 \/ completion_tokens # 0)
              => claude_response.usage =
                     [input_tokens |-> prompt_tokens, output_tokens |-> completion_tokens]
           /\ (prompt_tokens = 0 /\ completion_tokens = 0 /\ response_estimation)
              => claude_response.usage =
                     [input_tokens |-> estimate_input_tokens(response_request),
                      output_tokens |->
                          estimate_output_tokens(ResponseText(claude_response.content))]

-----------------------------------------------------------------------------
(* Properties of the stream translators, continued (checked under Spec) *)

ReadLines == { i \in 1..Len(consumed) : ~consumed[i].disconnected }

\* C14: in the cancellation-aware translator a line read with an inline error payload
\* is the last line consumed; the event stream then ends with one error event, the
\* only one, holding the payload's type and message (unknown_error and "Unknown error
\* occurred" for a key the payload lacks), and holds no content_block_stop,
\* message_delta or message_stop.
C14_InlineErrorEndsStream ==
    variant = "cancel" =>
        \A i \in ReadLines :
            LET ln == consumed[i].line IN
            ln.kind = "error" =>
                /\ i = Len(consumed)
                /\ tstate = "error"
                /\ events[Len(events)].type = "error"
                /\ events[Len(events)].error_type =
                       (IF ln.error_type = "" THEN "unknown_error" ELSE ln.error_type)
                /\ events[Len(events)].message =
                       (IF ln.message = "" THEN "Unknown error occurred" ELSE ln.message)
                /\ Cardinality(EventsOf("error")) = 1
                /\ EventsOf("content_block_stop") = {}
                /\ EventsOf("message_delta") = {}
                /\ EventsOf("message_stop") = {}

\* a text chunk was translated, then the payload client_error ended the stream
C14_Witness ==
    /\ variant = "cancel"
    /\ Len(consumed) = 2
    /\ consumed[1].line.kind = "chunk" /\ consumed[1].line.content # <<>>
    /\ consumed[2] = Fetched(ErrorPayload("client_error", "Request cancelled by client"), FALSE)
    /\ tstate = "error"
    /\ events[Len(events)] = ErrorEvent("client_error", "Request cancelled by client")
    /\ Len(events) = 5

\* the loop state when the first line is read
FirstLoopState ==
    [tools |-> <<>>, order |-> <<>>, counter |-> 0,
     events |-> <<MessageStart, TextBlockStart, Ping>>, stop |-> "end_turn", tin |-> 0,
     tout |-> 0, exc |-> "", outcome |-> "continue"]

\* the loop state after the lines, read in order until the loop is left
RECURSIVE Replay(_, _, _)
Replay(r, lines, v) ==
    IF lines = <<>> \/ r.outcome # "continue" THEN r
    ELSE Replay(HandleLine(r, Head(lines), v), Tail(lines), v)

\* the lines read so far, the undecodable ones left out
DecodableLines ==
    LET Kept(f) == ~f.disconnected /\ f.line.kind # "malformed"
        kept == SelectSeq(consumed, Kept)
    IN  [i \in 1..Len(kept) |-> kept[i].line]

-----------------------------------------------------------------------------
(* Properties of the client, continued (checked under SpecClientFair) *)

\* the generator of call c has yielded a timeout signal
TimedOut(c) ==
    \E i \in 1..Len(yielded[c]) : yielded[c][i] = ErrorItem("timeout_error")

\* C13: no wait for the next chunk lasts forever; a timeout signal is the last item
\* the generator yields (no chunk, no [DONE] and no second signal follows it), the
\* generator never fetches again after it, and the stream then terminates.
C13_TimeoutEndsStream ==
    /\ [](\A c \in Calls :
            \A i \in 1..Len(yielded[c]) :
                yielded[c][i].error_type = "timeout_error"
                => /\ i = Len(yielded[c])
                   /\ call_pc[c] \in {"at_final", "finished", "closed"})
    /\ \A c \in Calls : (call_pc[c] = "fetching") ~> (call_pc[c] # "fetching")
    /\ \A c \in Calls : TimedOut(c) ~> (call_pc[c] \in {"finished", "closed"})

\* a stream that yielded one chunk and then timed out has finished
C13_Witness ==
    \E c \in Calls :
        /\ call_op[c] = "stream"
        /\ Len(yielded[c]) = 2
        /\ yielded[c][1].kind = "chunk"
        /\ yielded[c][2] = ErrorItem("timeout_error")
        /\ call_pc[c] = "finished"

-----------------------------------------------------------------------------
(* Properties of the translators reading the client's generator (checked under
   SpecPipe) *)

\* the event stream holds none of the closing events
NoClosingEvents ==
    /\ EventsOf("content_block_stop") = {}
    /\ EventsOf("message_delta") = {}
    /\ EventsOf("message_stop") = {}

\* the lines read that hold the generator's cancellation signal
CancellationLines ==
    { i \in ReadLines : /\ i <= Len(yielded[Source])
                        /\ yielded[Source][i] = ErrorItem("client_error")
                        /\ consumed[i].line.kind = "error" }

\* C15: in the cancellation-aware translator, a stream whose generator saw the
\* cancellation set by cancel_request ends with an error event of type "cancelled",
\* a stream where an exception was raised while reading or translating ends with an
\* error event of type "api_error" holding the exception's message, and in both cases
\* none of the closing events is sent.
C15_CancellationSurfaces ==
    variant = "cancel" =>
        /\ CancellationLines # {}
           => /\ events[Len(events)].type = "error"
              /\ events[Len(events)].error_type = "cancelled"
              /\ NoClosingEvents
        /\ \A i \in ReadLines :
               consumed[i].line.kind = "raise"
               => /\ events[Len(events)] = ErrorEvent("api_error", consumed[i].line.exc)
                  /\ NoClosingEvents

\* the lines read that report a failure: an error payload of the generator, or an
\* exception raised in the iteration
FailureLines == { i \in ReadLines : consumed[i].line.kind \in {"error", "raise"} }

\* C16: no exception leaves a translator, and a translator that has read a failure
\* (an error payload the generator yielded for a connection or backend error, a
\* timeout or a cancellation, or an exception raised while reading or translating)
\* has ended its event stream with an error event.
C16_FailuresEndInPlace ==
    /\ tstate # "raised"
    /\ FailureLines # {}
       => /\ tstate = "error"
          /\ events[Len(events)].type = "error"

-----------------------------------------------------------------------------
(* Properties of classify_openai_error (checked under SpecClassify) *)

\* whether the lower-cased text s matches the rule of priority k
RuleMatches(k, s) ==
    CASE k = 1 -> In(<<"resource", "not", "found">>, s) /\ In(<<"404">>, s)
      [] k = 2 -> \/ In(<<"unsupported_country_region_territory">>, s)
                  \/ In(<<"country,", "region,", "or", "territory", "not", "supported">>, s)
      [] k = 3 -> In(<<"invalid_api_key">>, s) \/ In(<<"unauthorized">>, s)
      [] k = 4 -> In(<<"rate_limit">>, s) \/ In(<<"quota">>, s)
      [] k = 5 -> /\ In(<<"model">>, s)
                  /\ In(<<"not", "found">>, s) \/ In(<<"does", "not", "exist">>, s)
      [] k = 6 -> In(<<"billing">>, s) \/ In(<<"payment">>, s)
      [] OTHER -> In(<<"azure">>, s) /\ In(<<"endpoint">>, s)

\* the message classify_openai_error returned is that of the rule of priority k
IsMessageOf(k, text) ==
    text = CASE k = 1 -> <<"Azure OpenAI resource not found. Please check your deployment name, endpoint URL, and API version. Ensure the model deployment exists and is properly configured.">>
             [] k = 2 -> <<"OpenAI API is not available in your region. Consider using a VPN or Azure OpenAI service.">>
             [] k = 3 -> <<"Invalid API key. Please check your OPENAI_API_KEY configuration.">>
             [] k = 4 -> <<"Rate limit exceeded. Please wait and try again, or upgrade your API plan.">>
             [] k = 5 -> <<"Model not found. Please check your BIG_MODEL and SMALL_MODEL configuration.">>
             [] k = 6 -> <<"Billing issue. Please check your OpenAI account billing status.">>
             [] OTHER -> <<"Azure OpenAI endpoint configuration issue. Please verify your OPENAI_BASE_URL and AZURE_API_VERSION settings.">>

\* the priorities of the rules the text matches, case ignored
MatchingRules == { k \in 1..7 : RuleMatches(k, Lower(error_detail)) }

\* C18: classify_openai_error returns the message of the matching rule of highest
\* priority in the order resource-not-found with 404, region, API key, rate limit,
\* model not found, billing, azure endpoint; a text no rule matches is returned as
\* it was given.
C18_FirstMatchWins ==
    error_guidance.returned =>
        IF MatchingRules = {}
        THEN error_guidance.text = error_detail
        ELSE \E k \in MatchingRules :
                 /\ \A j \in MatchingRules : k <= j
                 /\ IsMessageOf(k, error_guidance.text)

\* a text matching the rules of priority 1 and 3 got the message of rule 1
C18_Witness ==
    /\ error_guidance.returned
    /\ error_detail = <<"Unauthorized", "Resource", "not", "found", "404">>
    /\ MatchingRules = {1, 3}
    /\ IsMessageOf(1, error_guidance.text)

-----------------------------------------------------------------------------
(* Properties of the TokenEstimator (checked under SpecEstimator) *)

\* q is floor(n / d) for the divisor d = tenths / 10
IsFloorOfQuotient(q, n, tenths) == tenths * q <= 10 * n /\ 10 * n < tenths * (q + 1)

\* C19: estimate_text_tokens returns 0 for the empty text and otherwise
\* max(1, floor(n / d)), n the number of characters, c the number of CJK characters,
\* d = 1.2 when c/n > 0.7, 4.0 when c/n < 0.1 and 2.5 otherwise (also at exactly 0.7
\* and 0.1); 400 ASCII characters give 100 and 120 CJK characters give 100.
C19_TextEstimate ==
    est_result.function = "estimate_text_tokens" =>
        LET n == Len(est_text)
            c == Cardinality({ i \in 1..n : est_text[i] = "C" })
            tenths == IF 10 * c > 7 * n THEN 12 ELSE IF 10 * c < n THEN 40 ELSE 25
        IN  /\ n = 0 => est_result.tokens = 0
            /\ n > 0 => /\ est_result.tokens >= 1
                        /\ \E q \in 0..n :
                               /\ IsFloorOfQuotient(q, n, tenths)
                               /\ est_result.tokens = (IF q >= 1 THEN q ELSE 1)
            /\ (n = 400 /\ c = 0) => est_result.tokens = 100
            /\ (n = 120 /\ c = 120) => est_result.tokens = 100

\* a text of ten characters, seven of them CJK (ratio exactly 0.7), was estimated
\* with the divisor 2.5
C19_Witness ==
    /\ est_result = Estimate("estimate_text_tokens", 4)
    /\ Len(est_text) = 10
    /\ Cardinality({ i \in 1..10 : est_text[i] = "C" }) = 7

\* the estimate of a message's textual content: of the string, or of each text item
\* of a list, added up
RECURSIVE TextItemsEstimate(_)
TextItemsEstimate(items) ==
    IF items = <<>> THEN 0
    ELSE estimate_text_tokens(Head(items)) + TextItemsEstimate(Tail(items))
ContentEstimate(m) ==
    IF m.is_list THEN TextItemsEstimate(m.items) ELSE estimate_text_tokens(m.content)

\* the sum over the messages of content estimate + 1 for a role + 3
RECURSIVE SumOverMessages(_)
SumOverMessages(messages) ==
    IF messages = <<>> THEN 0
    ELSE ContentEstimate(Head(messages)) + (IF Head(messages).has_role THEN 1 ELSE 0) + 3
         + SumOverMessages(Tail(messages))

\* C20 as stated: estimate_messages_tokens is the sum over the messages of (content
\* estimate + 1 for the role + 3), and estimate_request_input_tokens is that sum plus
\* the estimate of the system prompt plus 5, for every list and every request.
C20_SumOfParts ==
    /\ est_result.function = "estimate_messages_tokens"
       => est_result.tokens = SumOverMessages(est_request.messages)
    /\ est_result.function = "estimate_request_input_tokens"
       => est_result.tokens = SumOverMessages(est_request.messages)
                              + estimate_text_tokens(est_request.system) + 5

\* C20, amended: estimate_messages_tokens is that sum for a list with at least one
\* message and 1 for the empty list; estimate_request_input_tokens is the sum (0
\* without messages) plus the estimate of the system prompt (0 without one) plus 5.
C20_SumWithFloor ==
    /\ est_result.function = "estimate_messages_tokens"
       => est_result.tokens = (IF est_request.messages = <<>> THEN 1
                               ELSE SumOverMessages(est_request.messages))
    /\ est_result.function = "estimate_request_input_tokens"
       => est_result.tokens = SumOverMessages(est_request.messages)
                              + estimate_text_tokens(est_request.system) + 5

\* a request with a string message, a list message and a system prompt: 6 + 6 + 2 + 5
C20_Witness ==
    /\ est_request.messages =
           <<Message(Repeat("a", 8)), ListMessage(<<<<"a", "a">>, <<"C", "C">>>>)>>
    /\ est_request.system = <<"C", "C", "C">>
    /\ est_result = Estimate("estimate_request_input_tokens", 19)

-----------------------------------------------------------------------------
(* Usage in the generator's output (checked under SpecClient) *)

\* the chunks carrying usage that the response of call c still holds, unread
UnreadUsage(c) == { i \in 1..Len(unread[c]) : unread[c][i].has_usage }

\* C22: when the backend's streamed response contains a chunk carrying usage, the
\* items yielded by create_chat_completion_stream hold a data item carrying that
\* usage before the [DONE] item, wherever in the response the chunk occurs.  (A chunk
\* the generator read is yielded before [DONE]; so once [DONE] is yielded, no chunk
\* carrying usage may be left unread in the response.)
C22_UsageBeforeDone ==
    \A c \in Calls :
        (call_op[c] = "stream" /\ call_pc[c] = "at_done"
         /\ yielded[c][Len(yielded[c])] = DoneItem)
        => UnreadUsage(c) = {}

-----------------------------------------------------------------------------
(* Properties of the stream translators, continued (checked under Spec) *)

TcIndex(d) == IF d.has_index THEN d.index ELSE 0

\* the least element of a set of positive numbers, 0 when it is empty
Least(S) == IF S = {} THEN 0 ELSE CHOOSE p \in S : \A q \in S : p <= q

\* the tool calls whose block has started
StartedCalls == { k \in DOMAIN current_tool_calls : current_tool_calls[k].started }

\* the place, among the tool-call deltas handled, where tool call k first appears
FirstSeen(k) ==
    LET D == DeltasOf(ProcessedChunks) IN Least({ p \in 1..Len(D) : TcIndex(D[p]) = k })

\* the place from which both the id and the name of tool call k are known,
\* 0 when they are not
KnownAt(k) ==
    LET D == DeltasOf(ProcessedChunks) IN
    Least({ p \in 1..Len(D) :
              /\ \E q \in 1..p : TcIndex(D[q]) = k /\ D[q].id # ""
              /\ \E q \in 1..p : TcIndex(D[q]) = k /\ D[q].name # "" })

\* the content_block_start events of tool-use blocks, in the order of emission
ToolStartEvents ==
    LET IsToolStart(e) == e.type = "content_block_start" /\ e.block = "tool_use"
    IN  SelectSeq(events, IsToolStart)

\* the j-th tool-use block started has index j, the started tool calls hold these
\* indices, and index 0 belongs to the text block alone
IndicesAreDense ==
    /\ \A j \in 1..Len(ToolStartEvents) : ToolStartEvents[j].index = j
    /\ Len(ToolStartEvents) = Cardinality(StartedCalls)
    /\ { current_tool_calls[k].claude_index : k \in StartedCalls } = 1..Len(ToolStartEvents)
    /\ \A i \in 1..Len(events) :
          events[i].index = 0 =>
              /\ events[i].block # "tool_use"
              /\ events[i].delta # "input_json_delta"

\* C24 as stated: tool-use blocks get the indices 1, 2, 3, ... without gaps or
\* reuse, in the order in which their tool calls first appear in the chunks (a tool
\* call seen earlier never has a larger index than one first seen later); index 0 is
\* only ever the text block.
C24_IndicesByFirstAppearance ==
    /\ IndicesAreDense
    /\ \A k1, k2 \in StartedCalls :
          FirstSeen(k1) < FirstSeen(k2) =>
              current_tool_calls[k1].claude_index < current_tool_calls[k2].claude_index

\* C24, amended: tool-use blocks get the indices 1, 2, 3, ... without gaps or reuse,
\* in the order in which their blocks start, a block starting at the first delta by
\* which both the id and the name of its tool call are known; index 0 is only ever
\* the text block.
C24_IndicesByBlockStart ==
    /\ IndicesAreDense
    /\ \A k \in StartedCalls : KnownAt(k) > 0
    /\ \A k1, k2 \in StartedCalls :
          KnownAt(k1) < KnownAt(k2) =>
              current_tool_calls[k1].claude_index < current_tool_calls[k2].claude_index

\* tool call 0 appeared first, without id and name, and got index 2; tool call 1,
\* complete on arrival, got index 1
C24_Witness ==
    /\ StartedCalls = {0, 1}
    /\ FirstSeen(0) < FirstSeen(1)
    /\ current_tool_calls[0].claude_index = 2
    /\ current_tool_calls[1].claude_index = 1

\* all the argument fragments received so far for the tool call with backend
\* index k, in arrival order
RECURSIVE FragmentsFor(_, _)
FragmentsFor(deltas, k) ==
    IF deltas = <<>> THEN <<>>
    ELSE (IF TcIndex(Head(deltas)) = k /\ Head(deltas).args.state = "str"
          THEN <<Head(deltas).args.frag>> ELSE <<>>)
         \o FragmentsFor(Tail(deltas), k)
Received(k) == Concat(FragmentsFor(DeltasOf(ProcessedChunks), k))

\* C25: every argument fragment received for a tool call is appended to its buffer:
\* the partial_json of an input_json_delta, when it is emitted, is the concatenation
\* in arrival order of all argument fragments received for that tool call so far,
\* whatever the order in which id, name and arguments arrive.
C25_NoFragmentLost ==
    [][\A j \in (Len(events) + 1)..Len(events') :
          events'[j].delta = "input_json_delta" =>
              \E k \in DOMAIN current_tool_calls' :
                  /\ current_tool_calls'[k].claude_index = events'[j].index
                  /\ current_tool_calls'[k].started
                  /\ events'[j].partial_json = Received(k)']_vars

\* the input_json_delta events of the block with output index ci
JsonDeltasFor(ci) ==
    { i \in EventsOf("content_block_delta") :
        events[i].delta = "input_json_delta" /\ events[i].index = ci }

\* the number of fragments after which the text first parses, 0 when it never does
FirstParse(frags) ==
    Least({ n \in 1..Len(frags) : JsonLoadsOk(Concat(SubSeq(frags, 1, n))) })

\* C26: at most one input_json_delta is ever emitted per tool call; it is emitted
\* at the first fragment after which the buffer parses and carries the buffer as it
\* is then; once json_sent is set no later fragment produces a delta, even when the
\* longer buffer also parses; json_sent never reverts to false.
C26_FirstParseOnly ==
    /\ [](\A k \in DOMAIN current_tool_calls :
            LET tool_call == current_tool_calls[k]
                frags == Accumulated(DeltasOf(ProcessedChunks), k, FALSE, FALSE)
                n == FirstParse(frags)
                sent == IF tool_call.started THEN JsonDeltasFor(tool_call.claude_index)
                        ELSE {}
            IN  /\ Cardinality(sent) <= 1
                /\ tool_call.json_sent <=> sent # {}
                /\ tool_call.json_sent <=> (tool_call.started /\ n > 0)
                /\ \A i \in sent : events[i].partial_json = Concat(SubSeq(frags, 1, n)))
    /\ [][\A k \in DOMAIN current_tool_calls :
            current_tool_calls[k].json_sent =>
                k \in DOMAIN current_tool_calls' /\ current_tool_calls'[k].json_sent]_vars

\* the fragments 1 and 1 arrived for one tool call: the buffer is 11, which parses
\* as 1 did, and the one delta sent carries 1
C26_Witness ==
    /\ 1 \in DOMAIN current_tool_calls
    /\ current_tool_calls[1].args_buffer = <<"1", "1">>
    /\ current_tool_calls[1].json_sent
    /\ \A i \in JsonDeltasFor(current_tool_calls[1].claude_index) :
          events[i].partial_json = <<"1">>
    /\ Cardinality(JsonDeltasFor(current_tool_calls[1].claude_index)) = 1

\* the chunks json.loads accepted, in order, with or without choices
ParsedChunks ==
    LET Parsed(f) == ~f.disconnected /\ f.line.kind = "chunk"
        kept == SelectSeq(consumed, Parsed)
    IN  [i \in 1..Len(kept) |-> kept[i].line]

\* C27: every parsed chunk that carries a usage object with a positive prompt_tokens
\* or completion_tokens and is consumed before the stream ends updates the
\* corresponding running total, whatever else it contains, a usage-only chunk with
\* an empty choices list included: while the stream runs, each total is the last
\* positive value of its field over the parsed chunks.
C27_EveryUsageCounts ==
    tstate = "streaming" =>
        /\ total_input_tokens = LastPositive(ParsedChunks, "prompt_tokens")
        /\ total_output_tokens = LastPositive(ParsedChunks, "completion_tokens")

\* a fetched line that the loop body handled and that carries a finish_reason
Finishes(f) ==
    ~f.disconnected /\ f.line.kind = "chunk" /\ f.line.has_choices /\ f.line.finish_reason # ""

\* the position of the first content_block_stop among evs, Len(evs) + 1 without one
FirstStop(evs) ==
    Least({ i \in 1..Len(evs) : evs[i].type = "content_block_stop" } \cup {Len(evs) + 1})

\* what the translator shows of the finishing chunk ln, given the events new that
\* its iteration added: its text, its tool-call block and fragments, its usage
FinishingChunkTranslated(ln, new) ==
    /\ ln.content # <<>> => new[1] = TextDelta(text_block_index, ln.content)
    /\ \A i \in 1..Len(new) :
          new[i].type \in {"content_block_start", "content_block_delta"} => i < FirstStop(new)
    /\ \A j \in 1..Len(ln.tool_calls.list) :
          LET d == ln.tool_calls.list[j]
              k == TcIndex(d)
              before == IF k \in DOMAIN current_tool_calls
                        THEN current_tool_calls[k] ELSE NewToolCall
          IN  /\ (d.id # "" /\ d.name # "" /\ ~before.started) =>
                    /\ current_tool_calls'[k].started
                    /\ \E i \in 1..(FirstStop(new) - 1) :
                          /\ new[i].type = "content_block_start"
                          /\ new[i].id = d.id /\ new[i].name = d.name
              /\ (d.args.state = "str" /\ current_tool_calls'[k].started) =>
                    current_tool_calls'[k].args_buffer = before.args_buffer \o d.args.frag
    /\ (ln.usage.has /\ ln.usage.has_pt /\ ln.usage.pt > 0) =>
          /\ total_input_tokens' = ln.usage.pt
          /\ new[Len(new) - 1].input_tokens = ln.usage.pt
    /\ (ln.usage.has /\ ln.usage.has_ct /\ ln.usage.ct > 0) =>
          /\ total_output_tokens' = ln.usage.ct
          /\ new[Len(new) - 1].output_tokens = ln.usage.ct
    /\ new[Len(new) - 1].type = "message_delta"
    /\ new[Len(new)].type = "message_stop"

\* C28: after a chunk with a non-null finish_reason has been processed, no later
\* chunk of the sequence is consumed or contributes any event, usage update or
\* stop-reason change: the finishing chunk is the last line read and the translator
\* is no longer streaming, and from then on its output stays as it is. The text,
\* tool-call fragments and usage of the finishing chunk itself are translated
\* before the closing events.
C28_FinishEndsConsumption ==
    /\ [](\A i \in 1..Len(consumed) :
            Finishes(consumed[i]) => i = Len(consumed) /\ tstate # "streaming")
    /\ [][/\ tstate \in {"done", "error", "raised"} =>
               UNCHANGED <<consumed, events, total_input_tokens, total_output_tokens,
                           final_stop_reason, current_tool_calls>>
          /\ (/\ Len(consumed') = Len(consumed) + 1
              /\ Finishes(consumed'[Len(consumed')])
              /\ tstate' = "done") =>
               /\ Len(events') >= Len(events) + 3
               /\ FinishingChunkTranslated(consumed'[Len(consumed')].line,
                                           SubSeq(events', Len(events) + 1, Len(events')))]_vars

\* a finishing chunk that carries text, usage and nothing else was read after a
\* chunk with other usage figures, and the stream closed with its figures
C28_Witness ==
    /\ tstate = "done"
    /\ Len(consumed) = 2
    /\ consumed[1].line = Chunk(Usage(5, 0), <<"C", "C">>, TcAbsent, "")
    /\ consumed[2] = Fetched(Chunk(Usage(5, 10), <<"a">>, TcAbsent, "stop"), FALSE)
    /\ total_output_tokens = 10
    /\ \E i \in EventsOf("content_block_delta") : events[i].text = <<"a">>

\* the kind of delta a block of the given type receives
DeltaKind(block) == IF block = "text" THEN "text_delta" ELSE "input_json_delta"

\* the content_block_start events of the block that the delta at position i
\* belongs to: same index, and a block of the delta's kind (a delta sent for a tool
\* call whose claude_index is still None belongs to no block)
StartsOf(i) ==
    { s \in EventsOf("content_block_start") :
        events[s].index = events[i].index /\ DeltaKind(events[s].block) = events[i].delta }

\* C29: for every content block index of a translated stream, its
\* content_block_start precedes every content_block_delta with that index and
\* every such delta precedes its content_block_stop: no delta is emitted for an
\* index that has not been started or that has already been stopped, and a stop
\* follows the start of its block.
C29_StartDeltaStop ==
    /\ \A i \in EventsOf("content_block_delta") :
          /\ \E s \in StartsOf(i) : s < i
          /\ \A e \in EventsOf("content_block_stop") :
                events[e].index = events[i].index => i < e
    /\ \A e \in EventsOf("content_block_stop") :
          \E s \in EventsOf("content_block_start") :
              events[s].index = events[e].index /\ s < e
    /\ \A s, t \in EventsOf("content_block_start") :
          events[s].index = events[t].index => s = t

\* a finished stream with a text delta and the delta of a tool block, both closed
C29_Witness ==
    /\ tstate = "done"
    /\ \E i, j \in EventsOf("content_block_delta") :
          /\ events[i].index = 0 /\ events[i].delta = "text_delta"
          /\ events[j].index = 1 /\ events[j].delta = "input_json_delta"
          /\ \E e, f \in EventsOf("content_block_stop") :
                events[e].index = 0 /\ events[f].index = 1 /\ i < e /\ j < f

\* the texts of the text_delta events sent so far, in order
TextsSent ==
    LET IsTextDelta(e) == e.type = "content_block_delta" /\ e.delta = "text_delta"
        sent == SelectSeq(events, IsTextDelta)
    IN  [i \in 1..Len(sent) |-> sent[i].text]

\* the non-empty text fragments of the chunks the loop body has handled, in order
TextsReceived ==
    LET HasText(ln) == ln.content # <<>>
        with_text == SelectSeq(ProcessedChunks, HasText)
    IN  [i \in 1..Len(with_text) |-> with_text[i].content]

\* C30: the text_delta events, all at index 0, carry in arrival order exactly the
\* non-empty text fragments of the consumed chunks, none dropped, duplicated or
\* reordered, so that their concatenation is the concatenation of the source text;
\* a chunk with empty or absent text emits no text_delta.
C30_TextDeltasAreTheText ==
    /\ TextsSent = TextsReceived
    /\ Concat(TextsSent) = Concat(TextsReceived)
    /\ \A i \in EventsOf("content_block_delta") :
          events[i].delta = "text_delta" =>
              events[i].index = text_block_index /\ events[i].text # <<>>

\* two chunks with different texts and one without text between them were handled
C30_Witness ==
    /\ Len(ProcessedChunks) = 3
    /\ ProcessedChunks[1].content = <<"C", "C">>
    /\ ProcessedChunks[2].content = <<>>
    /\ ProcessedChunks[3].content = <<"a">>
    /\ TextsSent = << <<"C", "C">>, <<"a">> >>

\* the lines fetched while the client was found disconnected
SeenDisconnected == { i \in 1..Len(consumed) : consumed[i].disconnected }

\* C31: the cancellation-aware translator checks the disconnect signal before it
\* processes a chunk; once the signal is seen set, cancel_request is invoked exactly
\* once and the translator stops: the chunk in hand and all later chunks produce no
\* content_block_start, no content_block_delta and no usage update (the totals are
\* what they were, or the estimates that replace two zero totals).
C31_DisconnectStops ==
    /\ [](/\ cancel_calls = Cardinality(SeenDisconnected)
          /\ cancel_calls <= 1
          /\ \A i \in SeenDisconnected :
                variant = "cancel" /\ i = Len(consumed) /\ tstate = "done")
    /\ [][(Len(consumed') = Len(consumed) + 1 /\ consumed'[Len(consumed')].disconnected) =>
             /\ cancel_calls' = cancel_calls + 1
             /\ \A j \in (Len(events) + 1)..Len(events') :
                   events'[j].type \in {"content_block_stop", "message_delta", "message_stop"}
             /\ SubSeq(events', 1, Len(events)) = events
             /\ current_tool_calls' = current_tool_calls
             /\ final_stop_reason' = final_stop_reason
             /\ \/ /\ total_input_tokens' = total_input_tokens
                   /\ total_output_tokens' = total_output_tokens
                \/ /\ enable_token_estimation
                   /\ total_input_tokens = 0 /\ total_output_tokens = 0
                   /\ total_input_tokens' = estimate_input_tokens(original_request)
                   /\ total_output_tokens' = EstimatedStreamOutput(original_request)]_vars

\* the client was found disconnected with a chunk in hand that carries text, usage
\* and a finish_reason, after a chunk with other usage figures had been processed
C31_Witness ==
    /\ cancel_calls = 1
    /\ Len(consumed) = 2
    /\ consumed[1] = Fetched(Chunk(Usage(5, 0), <<"C", "C">>, TcAbsent, ""), FALSE)
    /\ consumed[2] = Fetched(Chunk(Usage(5, 10), <<"a">>, TcAbsent, "stop"), TRUE)
    /\ total_output_tokens = 0
    /\ tstate = "done"

\* the translator v run from its start over the lines given, as far as its loop goes
RECURSIVE RunLoop(_, _, _)
RunLoop(r, lines, v) ==
    IF lines = <<>> \/ r.outcome # "continue" THEN r
    ELSE RunLoop(HandleLine(r, Head(lines), v), Tail(lines), v)

\* the events translator v emits for the source read so far: the three initial
\* events, those of its loop and, when its loop has ended normally (by a break, or
\* with the source when the running translator found it exhausted), the final ones
EventsFrom(v) ==
    LET lines == [i \in 1..Len(consumed) |-> consumed[i].line]
        fresh == [tools |-> <<>>, order |-> <<>>, counter |-> 0,
                  events |-> <<MessageStart, TextBlockStart, Ping>>, stop |-> "end_turn",
                  tin |-> 0, tout |-> 0, exc |-> "", outcome |-> "continue"]
        r == RunLoop(fresh, lines, v)
    IN  IF r.outcome = "break" \/ (r.outcome = "continue" /\ tstate = "done")
        THEN r.events \o FinalEvents(r, original_request, enable_token_estimation)
        ELSE r.events

\* the source gave no inline error payload and raised no cancellation, and the
\* client was never found disconnected
OrdinaryInput ==
    \A i \in 1..Len(consumed) :
        /\ ~consumed[i].disconnected
        /\ consumed[i].line.kind # "error"
        /\ ~(consumed[i].line.kind = "raise" /\ consumed[i].line.exc = "HTTPException499")

\* C38: the two streaming translators are equivalent on ordinary input: for every
\* chunk sequence without inline error payload, with the client never disconnecting
\* and the source raising no cancellation, both emit the same event sequence,
\* including for chunks whose delta has tool_calls or arguments present but null.
C38_TranslatorsAgree ==
    (tstate \in {"streaming", "done", "error", "raised"} /\ OrdinaryInput) =>
        /\ events = EventsFrom(variant)
        /\ EventsFrom("basic") = EventsFrom("cancel")

-----------------------------------------------------------------------------
(* Properties of the client, continued (checked under SpecClient; C32 under
   SpecCreateFair) *)

\* call c of create_chat_completion has its backend result res in hand and no
\* cancel_request has reached it
CompletedFirst(c, res) ==
    /\ call_op[c] = "create" /\ call_pc[c] = "waiting" /\ call_id[c] # ""
    /\ backend[c] = res
    /\ ~event_set[c]

\* C32: create_chat_completion races completion against cancellation and the first
\* to resolve wins: when the backend call has completed before cancel_request(id)
\* is invoked, the caller receives what the backend call ended with, and a
\* cancel_request(id) that arrives after the completion, in any interleaving before
\* create returns, never turns the call into a cancellation or a failure.
C32_CompletionFirstWins ==
    \A c \in Calls : \A res \in CreateResults :
        [](CompletedFirst(c, res) => [](call_pc[c] = "done" => outcome[c] = Deliver(res)))

\* text is what classify_openai_error gives for the raw error text: the message of
\* the matching rule of highest priority, or the raw text when no rule matches
IsClassified(text, raw) ==
    LET matching == { k \in 1..7 : RuleMatches(k, Lower(raw)) } IN
    IF matching = {} THEN text = raw
    ELSE \E k \in matching : (\A j \in matching : k <= j) /\ IsMessageOf(k, text)

\* the status code the claim gives for a failure of the backend call, 0 for what
\* it does not speak of
StatusOf(res) ==
    CASE res = "AuthenticationError" -> 401
      [] res = "RateLimitError" -> 429
      [] res = "BadRequestError" -> 400
      [] res = "APIError503" -> 503
      [] res = "APIError" -> 500
      [] OTHER -> 0

\* call c of create_chat_completion returns or raises in this step
CreateEnds(c) == call_op[c] = "create" /\ call_pc[c] # "done" /\ call_pc'[c] = "done"

\* C36: a create_chat_completion whose backend call failed raises a structured
\* error with a status code and a classified message: 401 for an authentication
\* failure, 429 for rate limiting, 400 for an invalid request, the upstream status
\* (500 without one) for any other API error, each with the classify_openai_error
\* message of the raw error text; and a call delivers exactly one outcome, the
\* result or one error, when it ends and never before or again.
C36_StructuredErrors ==
    /\ [](\A c \in Calls :
            call_op[c] = "create" =>
                /\ (call_pc[c] = "done") = (outcome[c] # NoOutcome)
                /\ outcome[c].kind \in {"none", "result", "HTTPException"})
    /\ [][\A c \in Calls :
            /\ outcome[c] # NoOutcome => outcome'[c] = outcome[c]
            /\ (CreateEnds(c) /\ ~cancel_task_done[c] /\ StatusOf(backend[c]) # 0) =>
                   /\ outcome'[c].kind = "HTTPException"
                   /\ outcome'[c].status_code = StatusOf(backend[c])
                   /\ IsClassified(outcome'[c].detail, StrOf(backend[c]))
            /\ (CreateEnds(c) /\ ~cancel_task_done[c] /\ backend[c] = "ok") =>
                   outcome'[c].kind = "result"]_vars

\* one call failed with an API error whose text matches two rules and carries the
\* message of the first, the other with an error of status 503 that no rule matches
C36_Witness ==
    \E c, d \in Calls :
        /\ call_op[c] = "create" /\ call_pc[c] = "done"
        /\ outcome[c] = HTTPException(500, <<"Azure OpenAI resource not found. Please check your deployment name, endpoint URL, and API version. Ensure the model deployment exists and is properly configured.">>)
        /\ call_op[d] = "create" /\ call_pc[d] = "done"
        /\ outcome[d] = HTTPException(503, <<"Timeout">>)

\* call c was started with a request id and has not yet run its finally clause
RunningWithId(c) == InFlight(c) /\ call_id[c] # ""

\* C39: while a call started with request id r is still running, the registry
\* holds an entry for r that is the one this call observes, and cancel_request(r)
\* returns true and sets the flag this call tests at its next checkpoint; this
\* under every interleaving of other calls starting and finishing, calls that use
\* the same id r included.
C39_EntryOfRunningCall ==
    /\ [](\A c \in Calls :
            RunningWithId(c) =>
                /\ call_id[c] \in DOMAIN active_requests
                /\ active_requests[call_id[c]] = c)
    /\ [][\A c \in Calls :
            (RunningWithId(c) /\ cancel_last'.request_id = call_id[c]) =>
                cancel_last'.result /\ event_set'[c]]_vars

\* an item that ends the generator's output: the [DONE] line or an error payload
IsTerminal(item) == item.kind \in {"done", "error"}

\* the generator of call c was consumed until it was exhausted
ConsumedToEnd(c) == call_op[c] = "stream" /\ call_pc[c] = "finished"

\* C40: a run of create_chat_completion_stream that is consumed to its end has
\* yielded exactly one terminal item, [DONE] or one error payload and never both,
\* as its last item; and [DONE] is yielded only when the iteration of the backend's
\* response ended (StopAsyncIteration at the await of the next chunk) or the chunk
\* just yielded carries a terminal finish_reason, never after the payload of a
\* connection failure, a timeout, a cancellation or a stream error.
C40_OneTerminalItem ==
    /\ [](\A c \in Calls :
            /\ \A i \in 1..(Len(yielded[c]) - 1) : ~IsTerminal(yielded[c][i])
            /\ ConsumedToEnd(c) =>
                    /\ yielded[c] # <<>>
                    /\ IsTerminal(yielded[c][Len(yielded[c])]))
    /\ [][\A c \in Calls :
            (yielded'[c] # yielded[c] /\ yielded'[c][Len(yielded'[c])] = DoneItem) =>
                /\ \A i \in 1..Len(yielded[c]) : yielded[c][i].kind = "chunk"
                /\ \/ call_pc[c] = "fetching"
                   \/ /\ call_pc[c] = "at_chunk"
                      /\ yielded[c][Len(yielded[c])].finish_reason \in TerminalFinishReasons]_vars

\* a run consumed to its end that yielded chunks, the last of them with the
\* finish_reason "stop", and then [DONE]
C40_Witness ==
    \E c \in Calls :
        /\ ConsumedToEnd(c)
        /\ Len(yielded[c]) >= 3
        /\ yielded[c][Len(yielded[c])] = DoneItem
        /\ yielded[c][Len(yielded[c]) - 1].finish_reason = "stop"

-----------------------------------------------------------------------------
(* Properties of the non-streaming translator, continued (checked under
   SpecResponse) *)

\* the argument string of a tool call: "{}" when the key is absent
ArgumentString(tc) == IF tc.args.state = "absent" THEN <<LBRACE, RBRACE>> ELSE tc.args.frag

\* the content is the text block, if the message has text, followed by one
\* tool-use block for each of the tool calls given, in their order
ContentInOrder(content, text, tool_calls) ==
    LET offset == IF text # <<>> THEN 1 ELSE 0 IN
    IF text = <<>> /\ tool_calls = <<>>
    THEN content = <<TextBlock(<<>>)>>
    ELSE /\ Len(content) = offset + Len(tool_calls)
         /\ text # <<>> => content[1] = TextBlock(text)
         /\ \A j \in 1..Len(tool_calls) :
               LET block == content[offset + j]
                   tc == tool_calls[j]
               IN  /\ block.type = "tool_use"
                   /\ block.name = tc.name
                   /\ tc.id # "" => block.id = tc.id
                   /\ block.input.value = ArgumentString(tc)
                   /\ block.input.raw_arguments = ~JsonLoadsOk(ArgumentString(tc))

\* the tool calls of the first choice whose type is "function", in order
FunctionCalls ==
    LET IsFunction(tc) == tc.type = "function"
    IN  SelectSeq(openai_response.choices[1].tool_calls, IsFunction)

\* C34 (as stated): the content of a translated message is one text block first if
\* the backend message has non-empty text, then exactly one tool-use block per tool
\* call of the backend message in their original order, whose input is the parsed
\* argument string or, when it does not parse, the wrapper {raw_arguments: string}.
C34_OneBlockPerToolCall ==
    Translated =>
        ContentInOrder(claude_response.content, openai_response.choices[1].content,
                       openai_response.choices[1].tool_calls)

\* C34 (amended): the same, with one tool-use block per tool call of type
\* "function"; a tool call of another type produces no block.
C34_OneBlockPerFunctionCall ==
    Translated =>
        ContentInOrder(claude_response.content, openai_response.choices[1].content,
                       FunctionCalls)

\* a message with text and two function calls, the first with arguments that do
\* not parse and no id, the second without arguments, was translated
C34_Witness ==
    /\ Translated
    /\ openai_response.choices[1].content = <<"C", "C", "a">>
    /\ Len(FunctionCalls) = 2
    /\ Len(claude_response.content) = 3
    /\ claude_response.content[2].input = [raw_arguments |-> TRUE, value |-> <<LBRACE, KEY>>]
    /\ claude_response.content[3].input = [raw_arguments |-> FALSE, value |-> <<LBRACE, RBRACE>>]

\* the backend result cut down to its first choice
FirstChoiceOnly == Response(<<openai_response.choices[1]>>, openai_response.usage)

\* the text of the text blocks of the translated message and the names of its
\* tool-use blocks come from the given choice
BuiltFrom(choice) ==
    /\ ResponseText(claude_response.content) = choice.content
    /\ \A i \in 1..Len(claude_response.content) :
          claude_response.content[i].type = "tool_use" =>
              \E j \in 1..Len(choice.tool_calls) :
                  choice.tool_calls[j].name = claude_response.content[i].name

\* C35: the non-streaming translation uses only the first choice of the backend
\* result, however many choices there are (the outcome is the one of the result cut
\* down to its first choice, and a message is built from that choice), and with no
\* choices it fails with an upstream API error of status 500 and produces no message.
C35_FirstChoiceOnly ==
    claude_response # <<>> =>
        IF openai_response.choices = <<>>
        THEN /\ claude_response.outcome = "raised"
             /\ claude_response.status_code = 500
             /\ claude_response.content = <<>>
        ELSE /\ claude_response =
                  convert_openai_to_claude_response(FirstChoiceOnly, response_request,
                                                    response_estimation)
             /\ Translated => BuiltFrom(openai_response.choices[1])

\* a result with two choices was translated: the first has text and stops, the
\* second has other text and ends on length
C35_Witness ==
    /\ Translated
    /\ Len(openai_response.choices) = 2
    /\ openai_response.choices[1].content = <<"C", "C", "a">>
    /\ openai_response.choices[1].finish_reason = "stop"
    /\ openai_response.choices[2].finish_reason = "length"
    /\ claude_response.content = <<TextBlock(<<"C", "C", "a">>)>>
    /\ claude_response.stop_reason = "end_turn"

-----------------------------------------------------------------------------
(* Properties of the translators reading the client's generator, continued
   (checked under SpecPipeFair) *)

\* the translator has ended while the generator it was reading stands at a yield
StoppedEarly ==
    /\ tstate \in {"done", "error", "raised"}
    /\ call_op[Source] = "stream"
    /\ call_pc[Source] \in {"at_chunk", "at_final", "at_done"}

-----------------------------------------------------------------------------
(* Properties of the backend endpoint (checked under SpecEndpoint) *)

\* C37: in Azure mode (an API version is configured) the endpoint handed to the
\* backend client is the root endpoint of the configured base URL: for every
\* deployment-shaped URL scheme://host/openai/deployments/... it is scheme://host,
\* everything from the first API-path segment onward and all trailing slashes
\* removed; and normalizing an already normalized endpoint leaves it unchanged.
C37_RootEndpoint ==
    (backend_client.made /\ azure_api_version # "") =>
        /\ \A scheme \in Schemes, host \in Hosts, path \in DeploymentPaths :
              env_base_url = Url(scheme, host, path) =>
                  backend_client.endpoint = scheme \o <<SLASH, SLASH>> \o host
        /\ AzureEndpoint(backend_client.endpoint) = backend_client.endpoint

-----------------------------------------------------------------------------
(* Properties of the max_tokens resolution (checked under SpecLimits) *)

\* clamp(x, lo, hi) as a relation: y is x brought into [lo, hi]
IsClamped(y, x, lo, hi) ==
    \/ lo <= x /\ x <= hi /\ y = x
    \/ x < lo /\ y = lo
    \/ x > hi /\ y = hi

DefaultLimits == Limits(100, 4096, 1024)

\* C21: with MIN <= MAX, the max_tokens sent to the backend is the requested value v
\* when v > 0 and v >= MIN, and DEFAULT otherwise, brought into [MIN, MAX]; it always
\* lies in [MIN, MAX]; with MIN=100, MAX=4096, DEFAULT=1024 the values 512, 0, 50,
\* 8192, -100 give 512, 1024, 1024, 4096, 1024.
C21_MaxTokensResolved ==
    LET v == requested_max_tokens
        cfg == token_limits
        lo == cfg.min_tokens_limit
        hi == cfg.max_tokens_limit
        final == sent_max_tokens.max_tokens
    IN  sent_max_tokens.sent /\ lo <= hi =>
            /\ lo <= final /\ final <= hi
            /\ (v > 0 /\ v >= lo) => IsClamped(final, v, lo, hi)
            /\ ~(v > 0 /\ v >= lo) => IsClamped(final, cfg.default_max_tokens, lo, hi)
            /\ cfg = DefaultLimits =>
                   /\ v = 512 => final = 512
                   /\ v = 0 => final = 1024
                   /\ v = 50 => final = 1024
                   /\ v = 8192 => final = 4096
                   /\ v = -100 => final = 1024

\* a request for 50 tokens under the default limits has been resolved to the default
C21_Witness ==
    /\ sent_max_tokens = Sent(1024)
    /\ requested_max_tokens = 50
    /\ token_limits = DefaultLimits

====
